---- MODULE Spec2Model ----
(***************************************************************************)
(* The scheduler cache (package cache, schedulerCache): the assumed-pod    *)
(* state machine, node accounting and the expiration reaper.               *)
(*                                                                         *)
(* Every exported method takes cache.mu for its whole body, so each method *)
(* is one atomic action.  Pods are modelled by value, with the fields the   *)
(* cache reads or writes.  A nil pointer, map or slice is the empty set    *)
(* and a non-nil one is a singleton set holding what it points to.         *)
(***************************************************************************)
EXTENDS Integers, Sequences, FiniteSets, TLC

\* ------------------------------------------------------------------ bounds
MaxTime == 2
MaxGeneration == 3

\* ------------------------------------------------------------------ parameters
\* cache.ttl, in ticks of the clock.
Ttl == 1

PodKeys == {"p1", "p2"}
NodeNames == {"n1", "n2"}

\* ------------------------------------------------------------------ values
Nil == {}
Ptr(x) == {x}
Deref(p) == CHOOSE x \in p : TRUE

Resource(cpu, mem) == [MilliCPU |-> cpu, Memory |-> mem]
ZeroResource == Resource(0, 0)
ResourceAdd(a, b) == Resource(a.MilliCPU + b.MilliCPU, a.Memory + b.Memory)
ResourceSub(a, b) == Resource(a.MilliCPU - b.MilliCPU, a.Memory - b.Memory)

\* v1.ResourceList: a map from resource name to quantity, possibly nil.
List(cpu, mem) == Ptr(("cpu" :> cpu) @@ ("memory" :> mem))
ListGet(l, r) == IF l # Nil /\ r \in DOMAIN Deref(l) THEN Deref(l)[r] ELSE 0

\* Resource.Add(rl): the CPU and memory quantities of a resource list.
ResourceOf(l) == Resource(ListGet(l, "cpu"), ListGet(l, "memory"))

\* dst[k] = v for every k, v of src; nothing is written when src is nil or
\* empty, and a write into a nil map is a panic.
Writes(src) == src # Nil /\ DOMAIN Deref(src) # {}
SetAll(dst, src) ==
    IF ~Writes(src) THEN dst
    ELSE Ptr([k \in DOMAIN Deref(dst) \cup DOMAIN Deref(src) |->
                IF k \in DOMAIN Deref(src) THEN Deref(src)[k] ELSE Deref(dst)[k]])

\* v1.Container and v1.ContainerResources: a name with requests and limits.
Container(name, req, lim) == [Name |-> name, Requests |-> req, Limits |-> lim]

\* v1.PodResizeResources: the pending request, the last action with its
\* version tag, and the rollback records.
ResizeResources(request, version, action, rollback) ==
    [Request |-> request, ActionVersion |-> version, Action |-> action, Rollback |-> rollback]

\* v1.Pod.
Pod(key, node, containers) ==
    [key |-> key, node |-> node, containers |-> containers,
     Labels |-> {}, Phase |-> "Running", DeletionTimestamp |-> Nil,
     ResourceVersion |-> "1", Conditions |-> <<>>,
     ResizeResourcesPolicy |-> "", ResizeResources |-> Nil]

\* The pods the scheduler and the event feed hand to the cache.
RequestValues == {List(1, 1), List(2, 1)}
PodInputs ==
    {Pod("p1", n, <<Container("c1", r, Nil)>>) : n \in NodeNames, r \in RequestValues}
    \cup {Pod("p2", "n1", <<Container("c1", List(1, 1), Nil)>>)}

\* The node descriptors the event feed hands to the cache.
Node(name, alloc) == [Name |-> name, Allocatable |-> alloc]
NodeInputs == {Node("n1", Resource(4, 4))}

\* getPodKey: the pod's UID.
getPodKey(pod) == pod.key

MapPut(f, k, v) == [x \in (DOMAIN f) \cup {k} |-> IF x = k THEN v ELSE f[x]]
MapDel(f, k) == [x \in (DOMAIN f) \ {k} |-> f[x]]
EmptyMap == [x \in {} |-> 0]

\* The orders in which a range over a map may visit the keys S.
Orders(S) == {s \in [1..Cardinality(S) -> S] : \A i, j \in 1..Cardinality(S) : s[i] = s[j] => i = j}

\* ------------------------------------------------------------------ NodeInfo
RECURSIVE SumRequests(_)
SumRequests(cs) ==
    IF cs = <<>> THEN ZeroResource
    ELSE ResourceAdd(ResourceOf(Head(cs).Requests), SumRequests(Tail(cs)))

\* calculateResource: the sum of the pod's per-container requests.
calculateResource(pod) == SumRequests(pod.containers)

NewNodeInfo ==
    [node |-> Nil, pods |-> <<>>, requestedResource |-> ZeroResource,
     allocatableResource |-> ZeroResource, generation |-> 0]

\* NodeInfo.AddPod: append, add the pod's request vector, bump generation.
NodeInfoAddPod(n, pod) ==
    [n EXCEPT !.pods = Append(@, pod),
              !.requestedResource = ResourceAdd(@, calculateResource(pod)),
              !.generation = @ + 1]

PodIndexes(n, key) == {i \in 1..Len(n.pods) : getPodKey(n.pods[i]) = key}
RemoveAt(s, i) == [j \in 1..(Len(s) - 1) |-> IF j < i THEN s[j] ELSE s[j + 1]]

\* NodeInfo.RemovePod: locate by key; NotFound if absent; subtract the
\* request vector of the pod passed in, drop the entry, bump generation.
NodeInfoRemovePod(n, pod) ==
    LET idx == PodIndexes(n, getPodKey(pod)) IN
    IF idx = {} THEN [err |-> TRUE, info |-> n]
    ELSE LET i == CHOOSE i \in idx : \A j \in idx : i <= j IN
         [err |-> FALSE,
          info |-> [n EXCEPT !.pods = RemoveAt(@, i),
                             !.requestedResource = ResourceSub(@, calculateResource(pod)),
                             !.generation = @ + 1]]

\* NodeInfo.SetNode: store the descriptor, recompute allocatable, bump generation.
NodeInfoSetNode(n, node) ==
    [n EXCEPT !.node = Ptr(node),
              !.allocatableResource = node.Allocatable,
              !.generation = @ + 1]

\* NodeInfo.RemoveNode: clear the descriptor, bump generation.
NodeInfoRemoveNode(n) ==
    [n EXCEPT !.node = Nil,
              !.allocatableResource = ZeroResource,
              !.generation = @ + 1]

\* ------------------------------------------------------------------ state
VARIABLES
    nodes,        \* cache.nodes: node name -> NodeInfo
    podStates,    \* cache.podStates: pod key -> podState
    assumedPods,  \* cache.assumedPods: the set of keys mapped to true
    pdbs,         \* cache.pdbs: budget UID -> PodDisruptionBudget
    now,          \* the wall clock read by time.Now()
    fatal,        \* "none", or how the process ended: "Fatalf" or "panic"
    mu,           \* cache.mu: "free", or the thread that holds it
    calls,        \* for each thread, the call it is in and its local variables
    nodeNameToInfo, \* the caller's map passed to UpdateNodeNameToInfoMap
    snapshot,     \* nil, or the Snapshot last returned to the caller
    last          \* the last call made on the cache and what it returned

vars == <<nodes, podStates, assumedPods, pdbs, now, fatal, mu, calls, nodeNameToInfo, snapshot, last>>
threadVars == <<mu, calls>>
cacheVars == <<nodes, podStates, assumedPods, pdbs>>

PodState(pod, deadline, bindingFinished) ==
    [pod |-> pod, deadline |-> deadline, bindingFinished |-> bindingFinished]

\* The state of a pod the cache has just come to know: AssumePod and the
\* branch of AddPod for an unknown key build &podState{pod: pod}.
newPodState(pod) == PodState(pod, Nil, FALSE)

\* Mutants of boundState: the flag is left unset; the deadline is pushed
\* back from the one already set.
boundState_NoFlag(ps, t) == [ps EXCEPT !.deadline = Ptr(t + Ttl)]
boundState_Extend(ps, t) ==
    [ps EXCEPT !.bindingFinished = TRUE,
               !.deadline = IF @ = Nil THEN Ptr(t + Ttl) ELSE Ptr(Deref(@) + Ttl)]

\* finishBinding on the state of an assumed pod, at time t.
boundState(ps, t) == [ps EXCEPT !.bindingFinished = TRUE, !.deadline = Ptr(t + Ttl)]

\* Mutant of confirmedState: the deadline is left armed.
confirmedState_KeepDeadline(ps, pod) == [ps EXCEPT !.pod = pod]

\* AddPod on the state of an assumed pod.
confirmedState(ps, pod) == [ps EXCEPT !.deadline = Nil, !.pod = pod]

\* What the caller of the last operation saw: the operation and whether it
\* returned an error.
Call(op, err) == [op |-> op, err |-> err]

\* The threads that share the cache: the scheduling loop, the handlers of
\* the event feed and the goroutine of the reaper.
Threads == {"scheduler", "feed", "reaper"}

\* A thread that is in no call.  In a call, pc is "lock" (about to take
\* cache.mu), "read", "write" or "unlock" (about to return); t is the time
\* the caller read before taking the lock; currState and assumed are the
\* locals read from podStates and assumedPods.
Idle ==
    [pc |-> "idle", op |-> "", pod |-> Nil, t |-> 0, currState |-> Nil,
     assumed |-> FALSE, err |-> FALSE, expired |-> {}]

\* newSchedulerCache
Init ==
    /\ nodes = EmptyMap
    /\ podStates = EmptyMap
    /\ assumedPods = {}
    /\ pdbs = EmptyMap
    /\ now = 0
    /\ fatal = "none"
    /\ mu = "free"
    /\ calls = [th \in Threads |-> Idle]
    /\ nodeNameToInfo = EmptyMap
    /\ snapshot = Nil
    /\ last = Call("New", FALSE)

Running == fatal = "none"

\* A call that would bump a generation is taken only below the cap, so that
\* the state space is finite.
GenerationsBounded(ns) == \A n \in DOMAIN ns : ns[n].generation < MaxGeneration

\* ------------------------------------------------------------------ helpers
\* Mutant of addPod: a pod naming an unknown node is dropped.
addPod_NoCreate(ns, pod) ==
    IF pod.node \in DOMAIN ns
    THEN MapPut(ns, pod.node, NodeInfoAddPod(ns[pod.node], pod))
    ELSE ns

\* addPod: the NodeInfo is created on first reference.
addPod(ns, pod) ==
    LET n == IF pod.node \in DOMAIN ns THEN ns[pod.node] ELSE NewNodeInfo
    IN MapPut(ns, pod.node, NodeInfoAddPod(n, pod))

\* removePod: a nil NodeInfo is dereferenced by n.RemovePod (a panic); an
\* error of NodeInfo.RemovePod is returned; the NodeInfo is deleted when it
\* holds no pod and no descriptor.
\* Mutant of removePod: a NodeInfo without pods is deleted with its
\* descriptor.
removePod_DropDescriptor(ns, pod) ==
    IF pod.node \notin DOMAIN ns THEN [status |-> "panic", nodes |-> ns]
    ELSE LET r == NodeInfoRemovePod(ns[pod.node], pod) IN
         IF r.err THEN [status |-> "err", nodes |-> ns]
         ELSE IF Len(r.info.pods) = 0
              THEN [status |-> "ok", nodes |-> MapDel(ns, pod.node)]
              ELSE [status |-> "ok", nodes |-> MapPut(ns, pod.node, r.info)]

removePod(ns, pod) ==
    IF pod.node \notin DOMAIN ns THEN [status |-> "panic", nodes |-> ns]
    ELSE LET r == NodeInfoRemovePod(ns[pod.node], pod) IN
         IF r.err THEN [status |-> "err", nodes |-> ns]
         ELSE IF Len(r.info.pods) = 0 /\ r.info.node = Nil
              THEN [status |-> "ok", nodes |-> MapDel(ns, pod.node)]
              ELSE [status |-> "ok", nodes |-> MapPut(ns, pod.node, r.info)]

\* The process ends: glog.Fatalf (how = "Fatalf") or a runtime panic.
Crash(how, call) ==
    /\ fatal' = how
    /\ last' = call
    /\ UNCHANGED <<nodes, podStates, assumedPods, pdbs, now, mu, calls, nodeNameToInfo, snapshot>>

Fail(call) ==
    /\ last' = call
    /\ UNCHANGED <<nodes, podStates, assumedPods, pdbs, now, fatal, mu, calls, nodeNameToInfo, snapshot>>

\* ------------------------------------------------------------------ actions
AssumePod(pod) ==
    LET key == getPodKey(pod) IN
    /\ Running
    /\ IF key \in DOMAIN podStates
       THEN Fail(Call("AssumePod", TRUE))
       ELSE /\ nodes' = addPod(nodes, pod)
            /\ GenerationsBounded(nodes)
            /\ podStates' = MapPut(podStates, key, newPodState(pod))
            /\ assumedPods' = assumedPods \cup {key}
            /\ last' = Call("AssumePod", FALSE)
            /\ UNCHANGED <<pdbs, now, fatal, mu, calls, nodeNameToInfo, snapshot>>

\* Mutant of FinishBinding: the state of any known key is armed, assumed or not.
FinishBinding_AnyState(pod) ==
    LET key == getPodKey(pod) IN
    /\ Running
    /\ IF key \in DOMAIN podStates
       THEN podStates' = [podStates EXCEPT ![key] = boundState(@, now)]
       ELSE UNCHANGED podStates
    /\ last' = Call("FinishBinding", FALSE)
    /\ UNCHANGED <<nodes, assumedPods, pdbs, now, fatal, mu, calls, nodeNameToInfo, snapshot>>

\* finishBinding(pod, time.Now())
FinishBinding(pod) ==
    LET key == getPodKey(pod) IN
    /\ Running
    /\ IF key \in DOMAIN podStates /\ key \in assumedPods
       THEN podStates' = [podStates EXCEPT ![key] = boundState(@, now)]
       ELSE UNCHANGED podStates
    /\ last' = Call("FinishBinding", FALSE)
    /\ UNCHANGED <<nodes, assumedPods, pdbs, now, fatal, mu, calls, nodeNameToInfo, snapshot>>

\* Mutant of ForgetPod: the pod stays on its node.
ForgetPod_KeepReservation(pod) ==
    LET key == getPodKey(pod)
        ok == key \in DOMAIN podStates
        call(err) == Call("ForgetPod", err)
    IN
    /\ Running
    /\ IF ok /\ podStates[key].pod.node # pod.node
       THEN Fail(call(TRUE))
       ELSE IF ok /\ key \in assumedPods
       THEN /\ assumedPods' = assumedPods \ {key}
            /\ podStates' = MapDel(podStates, key)
            /\ last' = call(FALSE)
            /\ UNCHANGED <<nodes, pdbs, now, fatal, mu, calls, nodeNameToInfo, snapshot>>
       ELSE Fail(call(TRUE))

\* Mutant of ForgetPod: the node names are not compared.
ForgetPod_NoNodeCheck(pod) ==
    LET key == getPodKey(pod)
        call(err) == Call("ForgetPod", err)
    IN
    /\ Running
    /\ IF key \in DOMAIN podStates /\ key \in assumedPods
       THEN LET r == removePod(nodes, pod) IN
            CASE r.status = "panic" -> Crash("panic", call(TRUE))
              [] r.status = "err" -> Fail(call(TRUE))
              [] r.status = "ok" ->
                    /\ nodes' = r.nodes
                    /\ GenerationsBounded(nodes)
                    /\ assumedPods' = assumedPods \ {key}
                    /\ podStates' = MapDel(podStates, key)
                    /\ last' = call(FALSE)
                    /\ UNCHANGED <<pdbs, now, fatal, mu, calls, nodeNameToInfo, snapshot>>
       ELSE Fail(call(TRUE))

ForgetPod(pod) ==
    LET key == getPodKey(pod)
        ok == key \in DOMAIN podStates
        call(err) == Call("ForgetPod", err)
    IN
    /\ Running
    /\ IF ok /\ podStates[key].pod.node # pod.node
       THEN Fail(call(TRUE))
       ELSE IF ok /\ key \in assumedPods
       THEN LET r == removePod(nodes, pod) IN
            CASE r.status = "panic" -> Crash("panic", call(TRUE))
              [] r.status = "err" -> Fail(call(TRUE))
              [] r.status = "ok" ->
                    /\ nodes' = r.nodes
                    /\ GenerationsBounded(nodes)
                    /\ assumedPods' = assumedPods \ {key}
                    /\ podStates' = MapDel(podStates, key)
                    /\ last' = call(FALSE)
                    /\ UNCHANGED <<pdbs, now, fatal, mu, calls, nodeNameToInfo, snapshot>>
       ELSE Fail(call(TRUE))

\* Mutants of confirmAssumed: the pod is not moved at all; the pod is added
\* to the new node and left on the old one.
confirmAssumed_NoMove(ns, currPod, pod) == [status |-> "ok", nodes |-> ns]
confirmAssumed_NoRemove(ns, currPod, pod) ==
    IF currPod.node # pod.node
    THEN [status |-> "ok", nodes |-> addPod(ns, pod)]
    ELSE [status |-> "ok", nodes |-> ns]

\* The branch of AddPod for a key that is present and assumed.  The result
\* of cache.removePod is discarded by the code; a panic in it still ends
\* the process.
confirmAssumed(ns, currPod, pod) ==
    IF currPod.node # pod.node
    THEN LET r == removePod(ns, currPod) IN
         [status |-> IF r.status = "panic" THEN "panic" ELSE "ok",
          nodes |-> addPod(r.nodes, pod)]
    ELSE [status |-> "ok", nodes |-> ns]

\* Mutant of AddPod: a key that is not assumed is added, known or not.
AddPod_AddAgain(pod) ==
    LET key == getPodKey(pod)
        ok == key \in DOMAIN podStates
        call(err) == Call("AddPod", err)
    IN
    /\ Running
    /\ IF ok /\ key \in assumedPods
       THEN LET r == confirmAssumed(nodes, podStates[key].pod, pod) IN
            IF r.status = "panic" THEN Crash("panic", call(TRUE))
            ELSE /\ nodes' = r.nodes
                 /\ GenerationsBounded(nodes)
                 /\ assumedPods' = assumedPods \ {key}
                 /\ podStates' = [podStates EXCEPT ![key] = confirmedState(@, pod)]
                 /\ last' = call(FALSE)
                 /\ UNCHANGED <<pdbs, now, fatal, mu, calls, nodeNameToInfo, snapshot>>
       ELSE /\ nodes' = addPod(nodes, pod)
            /\ GenerationsBounded(nodes)
            /\ podStates' = MapPut(podStates, key, newPodState(pod))
            /\ last' = call(FALSE)
            /\ UNCHANGED <<assumedPods, pdbs, now, fatal, mu, calls, nodeNameToInfo, snapshot>>

AddPod(pod) ==
    LET key == getPodKey(pod)
        ok == key \in DOMAIN podStates
        call(err) == Call("AddPod", err)
    IN
    /\ Running
    /\ IF ok /\ key \in assumedPods
       THEN LET r == confirmAssumed(nodes, podStates[key].pod, pod) IN
            IF r.status = "panic" THEN Crash("panic", call(TRUE))
            ELSE /\ nodes' = r.nodes
                 /\ GenerationsBounded(nodes)
                 /\ assumedPods' = assumedPods \ {key}
                 /\ podStates' = [podStates EXCEPT ![key] = confirmedState(@, pod)]
                 /\ last' = call(FALSE)
                 /\ UNCHANGED <<pdbs, now, fatal, mu, calls, nodeNameToInfo, snapshot>>
       ELSE IF ~ok
       THEN /\ nodes' = addPod(nodes, pod)
            /\ GenerationsBounded(nodes)
            /\ podStates' = MapPut(podStates, key, newPodState(pod))
            /\ last' = call(FALSE)
            /\ UNCHANGED <<assumedPods, pdbs, now, fatal, mu, calls, nodeNameToInfo, snapshot>>
       ELSE Fail(call(TRUE))

\* ------------------------------------------------------------------ resize
\* features.VerticalScaling is enabled in the feature gate.
VerticalScaling == TRUE

WithResize(pod, rr) == [pod EXCEPT !.ResizeResources = Ptr(rr)]
ResizeOf(pod) == Deref(pod.ResizeResources)

\* The index at which a loop that breaks on its first match stops, given
\* the indexes that match.
FirstIndex(matches) == CHOOSE i \in matches : \A j \in matches : i <= j

\* getPodResizeRequirements: the map from container name to the request
\* entry naming it (a later entry replaces an earlier one of the same name).
resizeContainersMap(pod) ==
    LET req == ResizeOf(pod).Request
    IN [n \in {req[i].Name : i \in DOMAIN req} |->
          req[CHOOSE i \in DOMAIN req :
                 req[i].Name = n /\ \A j \in DOMAIN req : req[j].Name = n => j <= i]]

\* The requests a container would have once resized: the request's
\* quantities laid over a copy of the container's own.
prospectiveRequests(c, m) ==
    IF c.Name \in DOMAIN m THEN SetAll(c.Requests, m[c.Name].Requests) ELSE c.Requests

RECURSIVE SumProspective(_, _)
SumProspective(cs, m) ==
    IF cs = <<>> THEN ZeroResource
    ELSE ResourceAdd(ResourceOf(prospectiveRequests(Head(cs), m)), SumProspective(Tail(cs), m))

\* Mutant of getPodResizeRequirements: the aggregate is that of the
\* containers as they are, without the resize.
getPodResizeRequirements_NoOverlay(pod) ==
    LET m == resizeContainersMap(pod) IN
    [panic |-> \E i \in DOMAIN pod.containers :
                  /\ pod.containers[i].Name \in DOMAIN m
                  /\ Writes(m[pod.containers[i].Name].Requests)
                  /\ pod.containers[i].Requests = Nil,
     podResource |-> calculateResource(pod)]

\* getPodResizeRequirements: the pod's aggregate request after the resize.
\* Copying a nil request list gives nil, and writing into it panics.
getPodResizeRequirements(pod) ==
    LET m == resizeContainersMap(pod) IN
    [panic |-> \E i \in DOMAIN pod.containers :
                  /\ pod.containers[i].Name \in DOMAIN m
                  /\ Writes(m[pod.containers[i].Name].Requests)
                  /\ pod.containers[i].Requests = Nil,
     podResource |-> SumProspective(pod.containers, m)]

\* The value of one engine step: the incoming pod and the cached pod as
\* written so far, and "ok", "err" or "panic".
Engine(status, newPod, cached) == [status |-> status, newPod |-> newPod, cached |-> cached]

\* A write through Containers[i] of pod panics when i is out of range or
\* the list written to is nil.
BadWrite(pod, i, field, src) ==
    Writes(src) /\ (i > Len(pod.containers) \/ pod.containers[i][field] = Nil)

\* setupInPlaceResizeAction: for every container of newPod the request
\* names, save its requests and limits as a rollback record and write the
\* requested quantities into newPod and into the cached pod; stamp Update.
setupInPlaceResizeAction(cached, newPod, m) ==
    LET named(i) == newPod.containers[i].Name \in DOMAIN m
        entry(i) == m[newPod.containers[i].Name]
        panics == \E i \in DOMAIN newPod.containers :
                     /\ named(i)
                     /\ \/ BadWrite(newPod, i, "Requests", entry(i).Requests)
                        \/ BadWrite(cached, i, "Requests", entry(i).Requests)
                        \/ BadWrite(newPod, i, "Limits", entry(i).Limits)
                        \/ BadWrite(cached, i, "Limits", entry(i).Limits)
        resized(pod) ==
            [pod EXCEPT !.containers =
                [i \in DOMAIN pod.containers |->
                    IF i \in DOMAIN newPod.containers /\ named(i)
                    THEN [pod.containers[i] EXCEPT
                            !.Requests = SetAll(@, entry(i).Requests),
                            !.Limits = SetAll(@, entry(i).Limits)]
                    ELSE pod.containers[i]]]
        saved == SelectSeq(newPod.containers, LAMBDA c : c.Name \in DOMAIN m)
        rollbackResources == IF saved = <<>> THEN Nil ELSE Ptr(saved)
    IN IF panics THEN Engine("panic", newPod, cached)
       ELSE Engine("ok",
                   WithResize(resized(newPod),
                              [ResizeOf(newPod) EXCEPT
                                   !.ActionVersion = newPod.ResourceVersion,
                                   !.Action = "Update",
                                   !.Rollback = rollbackResources]),
                   resized(cached))

\* rollbackPodResources: for every container of newPod, the first rollback
\* record of its name gives back the requests and the limits it saved, in
\* newPod and in the cached pod.
rollbackPodResources(cached, newPod) ==
    LET rb == Deref(ResizeOf(newPod).Rollback)
        found(i) == {j \in DOMAIN rb : rb[j].Name = newPod.containers[i].Name}
        record(i) == rb[FirstIndex(found(i))]
        restores(i) == found(i) # {} /\ (record(i).Requests # Nil \/ record(i).Limits # Nil)
        panics == \E i \in DOMAIN newPod.containers : restores(i) /\ i > Len(cached.containers)
        restored(pod) ==
            [pod EXCEPT !.containers =
                [i \in DOMAIN pod.containers |->
                    IF i \in DOMAIN newPod.containers /\ found(i) # {}
                    THEN [pod.containers[i] EXCEPT
                            !.Requests = IF record(i).Requests # Nil THEN record(i).Requests ELSE @,
                            !.Limits = IF record(i).Limits # Nil THEN record(i).Limits ELSE @]
                    ELSE pod.containers[i]]]
    IN IF panics THEN Engine("panic", newPod, cached)
       ELSE Engine("ok", restored(newPod), restored(cached))

\* processPodResizeStatus: only the first condition of type
\* PodResourcesResizeStatus is looked at; when its message is the version
\* tag of the last action, a failure rolls the resources back, and the
\* action is marked done with the rollback records cleared.
processPodResizeStatus(cached, newPod) ==
    LET statuses == {i \in DOMAIN newPod.Conditions :
                        newPod.Conditions[i].Type = "PodResourcesResizeStatus"}
    IN
    IF statuses = {} THEN Engine("ok", newPod, cached)
    ELSE LET cond == newPod.Conditions[FirstIndex(statuses)] IN
         IF cond.Message # ResizeOf(newPod).ActionVersion THEN Engine("ok", newPod, cached)
         ELSE LET e == IF cond.Status = "False" /\ ResizeOf(newPod).Rollback # Nil
                       THEN rollbackPodResources(cached, newPod)
                       ELSE Engine("ok", newPod, cached)
              IN [e EXCEPT !.newPod =
                     WithResize(@, [ResizeOf(@) EXCEPT
                                       !.ActionVersion = newPod.ResourceVersion,
                                       !.Action = "UpdateDone",
                                       !.Rollback = Nil])]

\* metav1.LabelSelectorAsSelector and the selector it gives: a nil selector
\* selects nothing, one without requirements is empty, a requirement with
\* an unknown operator is an error.
SelectorError(pdb) == pdb.Selector # Nil /\ ~Deref(pdb.Selector).valid
SelectorEmpty(pdb) == pdb.Selector # Nil /\ Deref(pdb.Selector).MatchLabels = {}
SelectorMatches(pdb, labels) ==
    pdb.Selector # Nil /\ Deref(pdb.Selector).MatchLabels \subseteq labels

\* Mutant of checkPodDisruptionBudgetOk: a budget that allows no disruption
\* is not counted as violated.
RECURSIVE checkPodDisruptionBudgetOk_AllowZero(_, _, _)
checkPodDisruptionBudgetOk_AllowZero(budgets, pod, order) ==
    IF order = <<>> THEN "ok"
    ELSE LET pdb == budgets[Head(order)] IN
         IF SelectorError(pdb) THEN "err"
         ELSE IF SelectorEmpty(pdb) \/ ~SelectorMatches(pdb, pod.Labels)
              THEN checkPodDisruptionBudgetOk_AllowZero(budgets, pod, Tail(order))
         ELSE IF pdb.PodDisruptionsAllowed < 0 THEN "violated"
         ELSE checkPodDisruptionBudgetOk_AllowZero(budgets, pod, Tail(order))

\* checkPodDisruptionBudgetOk over the budgets in the order the range over
\* cache.pdbs visits them: "ok", "violated" or "err".
RECURSIVE checkPodDisruptionBudgetOk(_, _, _)
checkPodDisruptionBudgetOk(budgets, pod, order) ==
    IF order = <<>> THEN "ok"
    ELSE LET pdb == budgets[Head(order)] IN
         IF SelectorError(pdb) THEN "err"
         ELSE IF SelectorEmpty(pdb) \/ ~SelectorMatches(pdb, pod.Labels)
              THEN checkPodDisruptionBudgetOk(budgets, pod, Tail(order))
         ELSE IF pdb.PodDisruptionsAllowed <= 0 THEN "violated"
         ELSE checkPodDisruptionBudgetOk(budgets, pod, Tail(order))

Stamp(e, action) ==
    [e EXCEPT !.newPod = WithResize(@, [ResizeOf(@) EXCEPT
                                           !.ActionVersion = e.newPod.ResourceVersion,
                                           !.Action = action])]

ClearRequest(pod) == WithResize(pod, [ResizeOf(pod) EXCEPT !.Request = <<>>])

\* Mutant of processPodResourcesScaling: a resize that takes the node to its
\* allocatable is admitted.
processPodResourcesScaling_AdmitEqual(ns, budgets, cached, newPod, order) ==
    IF newPod.node \notin DOMAIN ns THEN Engine("err", newPod, cached)
    ELSE
    LET node == ns[newPod.node]
        resizeResourcesPolicy ==
            IF newPod.ResizeResourcesPolicy # "" THEN newPod.ResizeResourcesPolicy
            ELSE "InPlacePreferred"
        e1 == processPodResizeStatus(cached, newPod)
    IN
    IF e1.status = "panic" \/ Len(ResizeOf(e1.newPod).Request) = 0 THEN e1
    ELSE IF resizeResourcesPolicy = "Restart"
    THEN Stamp([e1 EXCEPT !.newPod = ClearRequest(@)], "Reschedule")
    ELSE
    LET need == getPodResizeRequirements(e1.newPod)
        m == resizeContainersMap(e1.newPod)
        e2 == [e1 EXCEPT !.newPod = ClearRequest(@)]
        allocatable == node.allocatableResource
        nodeMilliCPU == node.requestedResource.MilliCPU
        nodeMemory == node.requestedResource.Memory
    IN
    IF need.panic THEN [e1 EXCEPT !.status = "panic"]
    ELSE IF /\ allocatable.MilliCPU >= need.podResource.MilliCPU + nodeMilliCPU
            /\ allocatable.Memory >= need.podResource.Memory + nodeMemory
    THEN setupInPlaceResizeAction(e2.cached, e2.newPod, m)
    ELSE IF resizeResourcesPolicy = "InPlaceOnly" THEN Stamp(e2, "NonePerPolicy")
    ELSE IF e2.newPod.Labels # {}
    THEN LET b == checkPodDisruptionBudgetOk(budgets, e2.newPod, order) IN
         CASE b = "err" -> [Stamp(e2, ResizeOf(e2.newPod).Action) EXCEPT !.status = "err"]
           [] b = "violated" -> Stamp(e2, "NonePerPDBViolation")
           [] b = "ok" -> Stamp(e2, "Reschedule")
    ELSE Stamp(e2, "Reschedule")

\* Mutant of processPodResourcesScaling: a resize refused by policy has been
\* written into the cached pod.
processPodResourcesScaling_WriteFirst(ns, budgets, cached, newPod, order) ==
    IF newPod.node \notin DOMAIN ns THEN Engine("err", newPod, cached)
    ELSE
    LET node == ns[newPod.node]
        resizeResourcesPolicy ==
            IF newPod.ResizeResourcesPolicy # "" THEN newPod.ResizeResourcesPolicy
            ELSE "InPlacePreferred"
        e1 == processPodResizeStatus(cached, newPod)
    IN
    IF e1.status = "panic" \/ Len(ResizeOf(e1.newPod).Request) = 0 THEN e1
    ELSE IF resizeResourcesPolicy = "Restart"
    THEN Stamp([e1 EXCEPT !.newPod = ClearRequest(@)], "Reschedule")
    ELSE
    LET need == getPodResizeRequirements(e1.newPod)
        m == resizeContainersMap(e1.newPod)
        e2 == [e1 EXCEPT !.newPod = ClearRequest(@)]
        allocatable == node.allocatableResource
        nodeMilliCPU == node.requestedResource.MilliCPU
        nodeMemory == node.requestedResource.Memory
    IN
    IF need.panic THEN [e1 EXCEPT !.status = "panic"]
    ELSE IF /\ allocatable.MilliCPU > need.podResource.MilliCPU + nodeMilliCPU
            /\ allocatable.Memory > need.podResource.Memory + nodeMemory
    THEN setupInPlaceResizeAction(e2.cached, e2.newPod, m)
    ELSE IF resizeResourcesPolicy = "InPlaceOnly"
    THEN Stamp([e2 EXCEPT !.cached = setupInPlaceResizeAction(e2.cached, e2.newPod, m).cached],
               "NonePerPolicy")
    ELSE IF e2.newPod.Labels # {}
    THEN LET b == checkPodDisruptionBudgetOk(budgets, e2.newPod, order) IN
         CASE b = "err" -> [Stamp(e2, ResizeOf(e2.newPod).Action) EXCEPT !.status = "err"]
           [] b = "violated" -> Stamp(e2, "NonePerPDBViolation")
           [] b = "ok" -> Stamp(e2, "Reschedule")
    ELSE Stamp(e2, "Reschedule")

\* processPodResourcesScaling, on the nodes as removePod(oldPod) left them.
processPodResourcesScaling(ns, budgets, cached, newPod, order) ==
    IF newPod.node \notin DOMAIN ns THEN Engine("err", newPod, cached)
    ELSE
    LET node == ns[newPod.node]
        resizeResourcesPolicy ==
            IF newPod.ResizeResourcesPolicy # "" THEN newPod.ResizeResourcesPolicy
            ELSE "InPlacePreferred"
        e1 == processPodResizeStatus(cached, newPod)
    IN
    IF e1.status = "panic" \/ Len(ResizeOf(e1.newPod).Request) = 0 THEN e1
    ELSE IF resizeResourcesPolicy = "Restart"
    THEN Stamp([e1 EXCEPT !.newPod = ClearRequest(@)], "Reschedule")
    ELSE
    LET need == getPodResizeRequirements(e1.newPod)
        m == resizeContainersMap(e1.newPod)
        e2 == [e1 EXCEPT !.newPod = ClearRequest(@)]
        allocatable == node.allocatableResource
        nodeMilliCPU == node.requestedResource.MilliCPU
        nodeMemory == node.requestedResource.Memory
    IN
    IF need.panic THEN [e1 EXCEPT !.status = "panic"]
    ELSE IF /\ allocatable.MilliCPU > need.podResource.MilliCPU + nodeMilliCPU
            /\ allocatable.Memory > need.podResource.Memory + nodeMemory
    THEN setupInPlaceResizeAction(e2.cached, e2.newPod, m)
    ELSE IF resizeResourcesPolicy = "InPlaceOnly" THEN Stamp(e2, "NonePerPolicy")
    ELSE IF e2.newPod.Labels # {}
    THEN LET b == checkPodDisruptionBudgetOk(budgets, e2.newPod, order) IN
         CASE b = "err" -> [Stamp(e2, ResizeOf(e2.newPod).Action) EXCEPT !.status = "err"]
           [] b = "violated" -> Stamp(e2, "NonePerPDBViolation")
           [] b = "ok" -> Stamp(e2, "Reschedule")
    ELSE Stamp(e2, "Reschedule")

\* The resize engine runs for running pods that carry resize resources.
resizeApplies(oldPod, newPod) ==
    /\ VerticalScaling
    /\ oldPod.Phase = "Running" /\ newPod.Phase = "Running"
    /\ newPod.DeletionTimestamp = Nil
    /\ newPod.ResizeResources # Nil

\* Mutant of updatePod: the error of the resize engine is returned before
\* newPod is added.
updatePod_ReturnEarly(ns, states, budgets, oldPod, newPod, order) ==
    LET r == removePod(ns, oldPod)
        key == getPodKey(oldPod)
    IN
    IF r.status # "ok" THEN [status |-> r.status, nodes |-> ns, podStates |-> states]
    ELSE IF resizeApplies(oldPod, newPod)
    THEN LET e == processPodResourcesScaling(r.nodes, budgets, states[key].pod, newPod, order) IN
         [status |-> CASE e.status = "panic" -> "panic"
                       [] e.status = "err" -> "engineErr"
                       [] e.status = "ok" -> "ok",
          nodes |-> IF e.status = "err" THEN r.nodes ELSE addPod(r.nodes, e.newPod),
          podStates |-> [states EXCEPT ![key].pod = e.cached]]
    ELSE [status |-> "ok", nodes |-> addPod(r.nodes, newPod), podStates |-> states]

\* updatePod: removePod(oldPod), the resize engine, addPod(newPod).  The
\* status is "err" when removePod failed and nothing was changed, and
\* "engineErr" when the engine's error is returned after addPod.
updatePod(ns, states, budgets, oldPod, newPod, order) ==
    LET r == removePod(ns, oldPod)
        key == getPodKey(oldPod)
    IN
    IF r.status # "ok" THEN [status |-> r.status, nodes |-> ns, podStates |-> states]
    ELSE IF resizeApplies(oldPod, newPod)
    THEN LET e == processPodResourcesScaling(r.nodes, budgets, states[key].pod, newPod, order) IN
         [status |-> CASE e.status = "panic" -> "panic"
                       [] e.status = "err" -> "engineErr"
                       [] e.status = "ok" -> "ok",
          nodes |-> addPod(r.nodes, e.newPod),
          podStates |-> [states EXCEPT ![key].pod = e.cached]]
    ELSE [status |-> "ok", nodes |-> addPod(r.nodes, newPod), podStates |-> states]

\* Mutant of UpdatePod: the node names are not compared.
UpdatePod_NoNodeCheck(oldPod, newPod) ==
    LET key == getPodKey(oldPod)
        ok == key \in DOMAIN podStates
        call(err) == Call("UpdatePod", err)
    IN
    /\ Running
    /\ getPodKey(newPod) = key
    /\ IF ok /\ key \notin assumedPods
       THEN \E order \in Orders(DOMAIN pdbs) :
                 LET r == updatePod(nodes, podStates, pdbs, oldPod, newPod, order) IN
                 IF r.status = "panic" THEN Crash("panic", call(TRUE))
                 ELSE /\ nodes' = r.nodes
                      /\ GenerationsBounded(nodes)
                      /\ podStates' = r.podStates
                      /\ last' = call(r.status # "ok")
                      /\ UNCHANGED <<assumedPods, pdbs, now, fatal, mu, calls, nodeNameToInfo, snapshot>>
       ELSE Fail(call(TRUE))

\* The event feed reports an update of one object: both pods carry its UID.
UpdatePod(oldPod, newPod) ==
    LET key == getPodKey(oldPod)
        ok == key \in DOMAIN podStates
        call(err) == Call("UpdatePod", err)
    IN
    /\ Running
    /\ getPodKey(newPod) = key
    /\ IF ok /\ key \notin assumedPods
       THEN IF podStates[key].pod.node # newPod.node
            THEN Crash("Fatalf", call(TRUE))
            ELSE \E order \in Orders(DOMAIN pdbs) :
                 \E r \in {updatePod(nodes, podStates, pdbs, oldPod, newPod, order)} :
                 IF r.status = "panic" THEN Crash("panic", call(TRUE))
                 ELSE /\ nodes' = r.nodes
                      /\ GenerationsBounded(nodes)
                      /\ podStates' = r.podStates
                      /\ last' = call(r.status # "ok")
                      /\ UNCHANGED <<assumedPods, pdbs, now, fatal, mu, calls, nodeNameToInfo, snapshot>>
       ELSE Fail(call(TRUE))

\* Mutant of RemovePod: a known key is removed, assumed or not.
RemovePod_AnyKnown(pod) ==
    LET key == getPodKey(pod)
        ok == key \in DOMAIN podStates
        call(err) == Call("RemovePod", err)
    IN
    /\ Running
    /\ IF ok
       THEN IF podStates[key].pod.node # pod.node
            THEN Crash("Fatalf", call(TRUE))
            ELSE LET r == removePod(nodes, podStates[key].pod) IN
                 CASE r.status = "panic" -> Crash("panic", call(TRUE))
                   [] r.status = "err" -> Fail(call(TRUE))
                   [] r.status = "ok" ->
                         /\ nodes' = r.nodes
                         /\ GenerationsBounded(nodes)
                         /\ podStates' = MapDel(podStates, key)
                         /\ last' = call(FALSE)
                         /\ UNCHANGED <<assumedPods, pdbs, now, fatal, mu, calls, nodeNameToInfo, snapshot>>
       ELSE Fail(call(TRUE))

\* Mutant of RemovePod: the state of the removed pod is kept.
RemovePod_KeepState(pod) ==
    LET key == getPodKey(pod)
        call(err) == Call("RemovePod", err)
    IN
    /\ Running
    /\ IF key \in DOMAIN podStates /\ key \notin assumedPods
       THEN IF podStates[key].pod.node # pod.node
            THEN Crash("Fatalf", call(TRUE))
            ELSE LET r == removePod(nodes, podStates[key].pod) IN
                 CASE r.status = "panic" -> Crash("panic", call(TRUE))
                   [] r.status = "err" -> Fail(call(TRUE))
                   [] r.status = "ok" ->
                         /\ nodes' = r.nodes
                         /\ GenerationsBounded(nodes)
                         /\ last' = call(FALSE)
                         /\ UNCHANGED <<podStates, assumedPods, pdbs, now, fatal, mu, calls, nodeNameToInfo, snapshot>>
       ELSE Fail(call(TRUE))

RemovePod(pod) ==
    LET key == getPodKey(pod)
        ok == key \in DOMAIN podStates
        call(err) == Call("RemovePod", err)
    IN
    /\ Running
    /\ IF ok /\ key \notin assumedPods
       THEN IF podStates[key].pod.node # pod.node
            THEN Crash("Fatalf", call(TRUE))
            ELSE LET r == removePod(nodes, podStates[key].pod) IN
                 CASE r.status = "panic" -> Crash("panic", call(TRUE))
                   [] r.status = "err" -> Fail(call(TRUE))
                   [] r.status = "ok" ->
                         /\ nodes' = r.nodes
                         /\ GenerationsBounded(nodes)
                         /\ podStates' = MapDel(podStates, key)
                         /\ last' = call(FALSE)
                         /\ UNCHANGED <<assumedPods, pdbs, now, fatal, mu, calls, nodeNameToInfo, snapshot>>
       ELSE Fail(call(TRUE))

\* labels.Selector.Matches, for a selector that requires a set of labels;
\* labels.Everything() requires none.
Matches(selector, labels) == selector \subseteq labels

\* The PodFilter of the caller: alwaysTrue, as List passes it, or the filter
\* of the pods that are not being deleted.
PodFilters == {"alwaysTrue", "notTerminating"}
podFilter(filter, pod) == filter = "alwaysTrue" \/ pod.DeletionTimestamp = Nil

\* Mutant of FilteredList: the selector is not applied.
RECURSIVE FilteredList_AnyLabels(_, _, _, _)
FilteredList_AnyLabels(ns, filter, selector, order) ==
    IF order = <<>> THEN <<>>
    ELSE SelectSeq(ns[Head(order)].pods, LAMBDA pod : podFilter(filter, pod))
         \o FilteredList_AnyLabels(ns, filter, selector, Tail(order))

\* FilteredList: the pods of every NodeInfo, in the order the range over
\* cache.nodes visits them, that pass the filter and match the selector.
RECURSIVE FilteredList(_, _, _, _)
FilteredList(ns, filter, selector, order) ==
    IF order = <<>> THEN <<>>
    ELSE SelectSeq(ns[Head(order)].pods,
                   LAMBDA pod : podFilter(filter, pod) /\ Matches(selector, pod.Labels))
         \o FilteredList(ns, filter, selector, Tail(order))

\* List: FilteredList with the filter alwaysTrue.
CacheList(ns, selector, order) == FilteredList(ns, "alwaysTrue", selector, order)

\* GetPod: the pod of the state kept under the key, or an error.
GetPod(pod) ==
    IF getPodKey(pod) \in DOMAIN podStates
    THEN [pod |-> Ptr(podStates[getPodKey(pod)].pod), err |-> FALSE]
    ELSE [pod |-> Nil, err |-> TRUE]

\* NodeInfo.Clone: a copy with the same descriptor, pods, sums and generation.
NodeInfoClone(n) ==
    [node |-> n.node, pods |-> n.pods, requestedResource |-> n.requestedResource,
     allocatableResource |-> n.allocatableResource, generation |-> n.generation]

\* The entry UpdateNodeNameToInfoMap leaves in the caller's map for a name of
\* the cache: the caller's own when its generation is the cache's, a clone
\* otherwise.
reconciled(target, name, info) ==
    IF name \in DOMAIN target /\ target[name].generation = info.generation
    THEN target[name]
    ELSE NodeInfoClone(info)

UpdateNodeNameToInfoMap ==
    /\ Running
    /\ nodeNameToInfo' =
          [name \in DOMAIN nodes |-> reconciled(nodeNameToInfo, name, nodes[name])]
    /\ last' = Call("UpdateNodeNameToInfoMap", FALSE)
    /\ UNCHANGED <<nodes, podStates, assumedPods, pdbs, now, fatal, mu, calls, snapshot>>

\* IsUpToDate(n): the cache holds a NodeInfo under n.Node().Name, with n's
\* generation. n.Node() is nil for a NodeInfo without descriptor, and the
\* read of its Name panics.
isUpToDate(ns, n) ==
    LET name == Deref(n.node).Name IN
    name \in DOMAIN ns /\ n.generation = ns[name].generation

IsUpToDate(n) ==
    /\ Running
    /\ IF n.node = Nil
       THEN Crash("panic", [op |-> "IsUpToDate", err |-> TRUE, result |-> FALSE])
       ELSE /\ last' = [op |-> "IsUpToDate", err |-> FALSE, result |-> isUpToDate(nodes, n)]
            /\ UNCHANGED <<nodes, podStates, assumedPods, pdbs, now, fatal, mu, calls, nodeNameToInfo, snapshot>>

\* AddNode and UpdateNode(oldNode, newNode) run the same body on the
\* descriptor they are given.
setNode(ns, node) ==
    LET n == IF node.Name \in DOMAIN ns THEN ns[node.Name] ELSE NewNodeInfo
    IN MapPut(ns, node.Name, NodeInfoSetNode(n, node))

AddNode(node) ==
    /\ Running
    /\ nodes' = setNode(nodes, node)
    /\ GenerationsBounded(nodes)
    /\ last' = Call("AddNode", FALSE)
    /\ UNCHANGED <<podStates, assumedPods, pdbs, now, fatal, mu, calls, nodeNameToInfo, snapshot>>

UpdateNode(oldNode, newNode) ==
    /\ Running
    /\ oldNode.Name = newNode.Name
    /\ nodes' = setNode(nodes, newNode)
    /\ GenerationsBounded(nodes)
    /\ last' = Call("UpdateNode", FALSE)
    /\ UNCHANGED <<podStates, assumedPods, pdbs, now, fatal, mu, calls, nodeNameToInfo, snapshot>>

\* RemoveNode: n.RemoveNode on a nil NodeInfo is a panic.
RemoveNode(node) ==
    LET call(err) == Call("RemoveNode", err) IN
    /\ Running
    /\ IF node.Name \notin DOMAIN nodes
       THEN Crash("panic", call(TRUE))
       ELSE LET n == NodeInfoRemoveNode(nodes[node.Name]) IN
            /\ nodes' = IF Len(n.pods) = 0 /\ n.node = Nil
                        THEN MapDel(nodes, node.Name)
                        ELSE MapPut(nodes, node.Name, n)
            /\ GenerationsBounded(nodes)
            /\ last' = call(FALSE)
            /\ UNCHANGED <<podStates, assumedPods, pdbs, now, fatal, mu, calls, nodeNameToInfo, snapshot>>

\* Mutants of expirePod: the pod stays on its node; the key stays in
\* assumedPods.
expirePod_KeepReservation(c, key, ps) ==
    [c EXCEPT !.assumedPods = @ \ {key}, !.podStates = MapDel(@, key)]


expirePod_KeepAssumed(c, key, ps) ==
    LET r == removePod(c.nodes, ps.pod) IN
    CASE r.status = "panic" -> [c EXCEPT !.status = "panic"]
      [] r.status = "err" -> c
      [] r.status = "ok" -> [c EXCEPT !.nodes = r.nodes, !.podStates = MapDel(@, key)]

\* expirePod on the cache state c = [nodes, podStates, assumedPods, status].
expirePod(c, key, ps) ==
    LET r == removePod(c.nodes, ps.pod) IN
    CASE r.status = "panic" -> [c EXCEPT !.status = "panic"]
      [] r.status = "err" -> c
      [] r.status = "ok" ->
            [c EXCEPT !.nodes = r.nodes,
                      !.assumedPods = @ \ {key},
                      !.podStates = MapDel(@, key)]

\* Mutant of cleanupOne: a pod expires at its deadline, not after it.
cleanupOne_AtDeadline(c, key, t) ==
    IF key \notin DOMAIN c.podStates THEN [c EXCEPT !.status = "dangling"]
    ELSE LET ps == c.podStates[key] IN
         IF ~ps.bindingFinished THEN c
         ELSE IF ps.deadline = Nil THEN [c EXCEPT !.status = "panic"]
         ELSE IF t >= Deref(ps.deadline) THEN expirePod(c, key, ps)
         ELSE c

\* One iteration of the loop of cleanupAssumedPods.  status "dangling" is
\* the panic "Key found in assumed set but not in podStates"; reading the
\* deadline through a nil pointer is a panic too.
cleanupOne(c, key, t) ==
    IF key \notin DOMAIN c.podStates THEN [c EXCEPT !.status = "dangling"]
    ELSE LET ps == c.podStates[key] IN
         IF ~ps.bindingFinished THEN c
         ELSE IF ps.deadline = Nil THEN [c EXCEPT !.status = "panic"]
         ELSE IF t > Deref(ps.deadline) THEN expirePod(c, key, ps)
         ELSE c

\* The loop of cleanupAssumedPods over the keys in the order the range
\* visits them; d is the cache as one iteration leaves it.
RECURSIVE cleanupLoop(_, _, _)
cleanupLoop(c, keys, t) ==
    IF keys = <<>> \/ c.status # "ok" THEN c
    ELSE CHOOSE r \in {cleanupLoop(d, Tail(keys), t) : d \in {cleanupOne(c, Head(keys), t)}} : TRUE

\* What a tick of the reaper leaves for its observer: it returns nothing,
\* and logs "Pod ... expired" for the keys it expires.
Reaped(c) ==
    [op |-> "cleanupAssumedPods", err |-> FALSE, expired |-> assumedPods \ c.assumedPods]

\* cleanupExpiredAssumedPods: the reaper's tick, cleanupAssumedPods(time.Now()).
cleanupAssumedPods ==
    /\ Running
    /\ \E keys \in Orders(assumedPods) :
         LET c0 == [nodes |-> nodes, podStates |-> podStates,
                    assumedPods |-> assumedPods, status |-> "ok"]
             c == cleanupLoop(c0, keys, now)
             call == Reaped(c)
         IN IF c.status # "ok" THEN Crash(c.status, call)
            ELSE /\ nodes' = c.nodes
                 /\ podStates' = c.podStates
                 /\ assumedPods' = c.assumedPods
                 /\ last' = call
                 /\ UNCHANGED <<pdbs, now, fatal, mu, calls, nodeNameToInfo, snapshot>>

\* policy.PodDisruptionBudget.
PodDisruptionBudget(uid, selector, allowed) ==
    [UID |-> uid, Selector |-> selector, PodDisruptionsAllowed |-> allowed]

\* AddPDB, and UpdatePDB(oldPDB, newPDB) which calls AddPDB(newPDB).
AddPDB(pdb) ==
    /\ Running
    /\ pdbs' = MapPut(pdbs, pdb.UID, pdb)
    /\ last' = Call("AddPDB", FALSE)
    /\ UNCHANGED <<nodes, podStates, assumedPods, now, fatal, mu, calls, nodeNameToInfo, snapshot>>

UpdatePDB(oldPDB, newPDB) ==
    /\ Running
    /\ pdbs' = MapPut(pdbs, newPDB.UID, newPDB)
    /\ last' = Call("UpdatePDB", FALSE)
    /\ UNCHANGED <<nodes, podStates, assumedPods, now, fatal, mu, calls, nodeNameToInfo, snapshot>>

RemovePDB(pdb) ==
    /\ Running
    /\ pdbs' = MapDel(pdbs, pdb.UID)
    /\ last' = Call("RemovePDB", FALSE)
    /\ UNCHANGED <<nodes, podStates, assumedPods, now, fatal, mu, calls, nodeNameToInfo, snapshot>>

\* Time passes.
Tick ==
    /\ Running
    /\ now < MaxTime
    /\ now' = now + 1
    /\ last' = Call("Tick", FALSE)
    /\ UNCHANGED <<nodes, podStates, assumedPods, pdbs, fatal, mu, calls, nodeNameToInfo, snapshot>>

\* ---------------------------------------------------------------- Snapshot
\* A map of a Snapshot: one made for it and filled with copies, or, for a
\* Snapshot that were given a map of the cache, that map, whose content is
\* whatever the cache has in it.
OwnMap(m) == [shared |-> FALSE, map |-> m]
CacheMap(m) == [shared |-> TRUE, map |-> m]
MapOf(r, cacheMap) == IF r.shared THEN cacheMap ELSE r.map

\* PodDisruptionBudget.DeepCopy
DeepCopy(pdb) ==
    [UID |-> pdb.UID, Selector |-> pdb.Selector,
     PodDisruptionsAllowed |-> pdb.PodDisruptionsAllowed]

\* Mutant of Snapshot: the maps of the cache are returned as they are.
Snapshot_CacheMaps ==
    /\ Running
    /\ snapshot' = Ptr([Nodes |-> CacheMap(nodes),
                        AssumedPods |-> CacheMap(assumedPods),
                        Pdbs |-> CacheMap(pdbs)])
    /\ last' = Call("Snapshot", FALSE)
    /\ UNCHANGED <<nodes, podStates, assumedPods, pdbs, now, fatal, mu, calls, nodeNameToInfo>>

Snapshot ==
    /\ Running
    /\ snapshot' = Ptr([Nodes |-> OwnMap([k \in DOMAIN nodes |-> NodeInfoClone(nodes[k])]),
                        AssumedPods |-> OwnMap(assumedPods),
                        Pdbs |-> OwnMap([k \in DOMAIN pdbs |-> DeepCopy(pdbs[k])])])
    /\ last' = Call("Snapshot", FALSE)
    /\ UNCHANGED <<nodes, podStates, assumedPods, pdbs, now, fatal, mu, calls, nodeNameToInfo>>

\* What the caller reads in its Snapshot.
SnapshotNodes == MapOf(Deref(snapshot).Nodes, nodes)
SnapshotAssumedPods == MapOf(Deref(snapshot).AssumedPods, assumedPods)
SnapshotPdbs == MapOf(Deref(snapshot).Pdbs, pdbs)

\* The caller deletes the node of a name from the Nodes of its Snapshot.
SnapshotDelete(name) ==
    /\ Running
    /\ snapshot # Nil
    /\ name \in DOMAIN SnapshotNodes
    /\ IF Deref(snapshot).Nodes.shared
       THEN nodes' = MapDel(nodes, name) /\ UNCHANGED snapshot
       ELSE /\ snapshot' = Ptr([Deref(snapshot) EXCEPT !.Nodes.map = MapDel(@, name)])
            /\ UNCHANGED nodes
    /\ UNCHANGED <<podStates, assumedPods, pdbs, now, fatal, mu, calls, nodeNameToInfo, last>>

\* ------------------------------------------------------------------ threads
\* The same methods as the threads run them: a call reads its key (and the
\* time, for FinishBinding and for the reaper) and waits for cache.mu; once
\* it holds the lock it reads podStates[key] and assumedPods[key] into its
\* locals, then acts on them and writes, and the deferred Unlock returns.
ThreadOps ==
    [scheduler |-> {"AssumePod", "FinishBinding", "ForgetPod"},
     feed |-> {"AddPod"},
     reaper |-> {"cleanupAssumedPods"}]

ReadsTime(op) == op \in {"FinishBinding", "cleanupAssumedPods"}

\* The thread enters a method: getPodKey(pod), and time.Now() in
\* FinishBinding and cleanupExpiredAssumedPods, come before Lock.
Invoke(th, op, pod) ==
    /\ Running
    /\ calls[th].pc = "idle"
    /\ op \in ThreadOps[th]
    /\ (op = "cleanupAssumedPods") = (pod = Nil)
    /\ op \in {"AssumePod", "AddPod"} => GenerationsBounded(nodes)
    /\ calls' = [calls EXCEPT ![th] =
                    [Idle EXCEPT !.pc = "lock", !.op = op, !.pod = pod,
                                 !.t = IF ReadsTime(op) THEN now ELSE 0]]
    /\ UNCHANGED <<nodes, podStates, assumedPods, pdbs, now, fatal, mu, nodeNameToInfo, snapshot, last>>

\* Mutant of Lock: the lock is taken whoever holds it.
Lock_NoExclusion(th) ==
    /\ Running
    /\ calls[th].pc = "lock"
    /\ mu' = th
    /\ calls' = [calls EXCEPT ![th].pc =
                    IF calls[th].op = "cleanupAssumedPods" THEN "write" ELSE "read"]
    /\ UNCHANGED <<nodes, podStates, assumedPods, pdbs, now, fatal, nodeNameToInfo, snapshot, last>>

\* cache.mu.Lock()
Lock(th) ==
    /\ Running
    /\ calls[th].pc = "lock"
    /\ mu = "free"
    /\ mu' = th
    /\ calls' = [calls EXCEPT ![th].pc =
                    IF calls[th].op = "cleanupAssumedPods" THEN "write" ELSE "read"]
    /\ UNCHANGED <<nodes, podStates, assumedPods, pdbs, now, fatal, nodeNameToInfo, snapshot, last>>

\* currState, ok := cache.podStates[key], and cache.assumedPods[key].
Read(th) ==
    LET key == getPodKey(Deref(calls[th].pod)) IN
    /\ Running
    /\ calls[th].pc = "read"
    /\ calls' = [calls EXCEPT
                    ![th].pc = "write",
                    ![th].currState = IF key \in DOMAIN podStates
                                      THEN Ptr(podStates[key]) ELSE Nil,
                    ![th].assumed = key \in assumedPods]
    /\ UNCHANGED <<nodes, podStates, assumedPods, pdbs, now, fatal, mu, nodeNameToInfo, snapshot, last>>

\* The thread goes on to its deferred Unlock, to return err.
Return(th, err) == calls' = [calls EXCEPT ![th].pc = "unlock", ![th].err = err]

\* The thread panics.
Panic(how) ==
    /\ fatal' = how
    /\ UNCHANGED <<nodes, podStates, assumedPods, pdbs, now, mu, calls, nodeNameToInfo, snapshot, last>>

\* The body of AssumePod after its read.
WriteAssumePod(th, pod) ==
    IF calls[th].currState # Nil
    THEN Return(th, TRUE) /\ UNCHANGED <<nodes, podStates, assumedPods, fatal>>
    ELSE /\ nodes' = addPod(nodes, pod)
         /\ podStates' = MapPut(podStates, getPodKey(pod), newPodState(pod))
         /\ assumedPods' = assumedPods \cup {getPodKey(pod)}
         /\ Return(th, FALSE)
         /\ UNCHANGED fatal

\* The body of finishBinding after its read: the fields are written through
\* the pointer currState, which the map still holds unless the key was
\* deleted.
WriteFinishBinding(th, pod) ==
    LET key == getPodKey(pod) IN
    /\ IF calls[th].currState # Nil /\ calls[th].assumed /\ key \in DOMAIN podStates
       THEN podStates' = [podStates EXCEPT ![key] = boundState(@, calls[th].t)]
       ELSE UNCHANGED podStates
    /\ Return(th, FALSE)
    /\ UNCHANGED <<nodes, assumedPods, fatal>>

\* The body of ForgetPod after its read.
WriteForgetPod(th, pod) ==
    LET key == getPodKey(pod)
        ok == calls[th].currState # Nil
    IN
    IF ok /\ Deref(calls[th].currState).pod.node # pod.node
    THEN Return(th, TRUE) /\ UNCHANGED <<nodes, podStates, assumedPods, fatal>>
    ELSE IF ok /\ calls[th].assumed
    THEN LET r == removePod(nodes, pod) IN
         CASE r.status = "panic" -> Panic("panic")
           [] r.status = "err" ->
                 Return(th, TRUE) /\ UNCHANGED <<nodes, podStates, assumedPods, fatal>>
           [] r.status = "ok" ->
                 /\ nodes' = r.nodes
                 /\ assumedPods' = assumedPods \ {key}
                 /\ podStates' = MapDel(podStates, key)
                 /\ Return(th, FALSE)
                 /\ UNCHANGED fatal
    ELSE Return(th, TRUE) /\ UNCHANGED <<nodes, podStates, assumedPods, fatal>>

\* The body of AddPod after its read; cache.podStates[key].deadline = nil
\* dereferences what the map holds for the key.
WriteAddPod(th, pod) ==
    LET key == getPodKey(pod)
        ok == calls[th].currState # Nil
    IN
    IF ok /\ calls[th].assumed
    THEN LET r == confirmAssumed(nodes, Deref(calls[th].currState).pod, pod) IN
         IF r.status = "panic" \/ key \notin DOMAIN podStates THEN Panic("panic")
         ELSE /\ nodes' = r.nodes
              /\ assumedPods' = assumedPods \ {key}
              /\ podStates' = [podStates EXCEPT ![key] = confirmedState(@, pod)]
              /\ Return(th, FALSE)
              /\ UNCHANGED fatal
    ELSE IF ~ok
    THEN /\ nodes' = addPod(nodes, pod)
         /\ podStates' = MapPut(podStates, key, newPodState(pod))
         /\ Return(th, FALSE)
         /\ UNCHANGED <<assumedPods, fatal>>
    ELSE Return(th, TRUE) /\ UNCHANGED <<nodes, podStates, assumedPods, fatal>>

\* The body of cleanupAssumedPods, with the time its caller read.
WriteCleanup(th) ==
    \E keys \in Orders(assumedPods) :
        LET c0 == [nodes |-> nodes, podStates |-> podStates,
                   assumedPods |-> assumedPods, status |-> "ok"]
            c == cleanupLoop(c0, keys, calls[th].t)
        IN IF c.status # "ok" THEN Panic(c.status)
           ELSE /\ nodes' = c.nodes
                /\ podStates' = c.podStates
                /\ assumedPods' = c.assumedPods
                /\ calls' = [calls EXCEPT ![th].pc = "unlock",
                                          ![th].expired = assumedPods \ c.assumedPods]
                /\ UNCHANGED fatal

Write(th) ==
    LET op == calls[th].op IN
    /\ Running
    /\ calls[th].pc = "write"
    /\ CASE op = "AssumePod" -> WriteAssumePod(th, Deref(calls[th].pod))
         [] op = "FinishBinding" -> WriteFinishBinding(th, Deref(calls[th].pod))
         [] op = "ForgetPod" -> WriteForgetPod(th, Deref(calls[th].pod))
         [] op = "AddPod" -> WriteAddPod(th, Deref(calls[th].pod))
         [] op = "cleanupAssumedPods" -> WriteCleanup(th)
    /\ UNCHANGED <<pdbs, now, mu, nodeNameToInfo, snapshot, last>>

\* defer cache.mu.Unlock(), and the return to the caller.
Unlock(th) ==
    /\ Running
    /\ calls[th].pc = "unlock"
    /\ mu' = "free"
    /\ calls' = [calls EXCEPT ![th] = Idle]
    /\ last' = IF calls[th].op = "cleanupAssumedPods"
               THEN [op |-> "cleanupAssumedPods", err |-> FALSE, expired |-> calls[th].expired]
               ELSE Call(calls[th].op, calls[th].err)
    /\ UNCHANGED <<nodes, podStates, assumedPods, pdbs, now, fatal, nodeNameToInfo, snapshot>>

\* ----------------------------------------------------------- resize inputs
\* The event feed reports pod p1 on node n1 with one container: as it was
\* created, asking for a resize of that container (one that fits node n1 and
\* one that does not, under each policy, with and without labels), and
\* reporting the outcome of the resize the cache decided at version "1".
ResizeStatus(status, message) ==
    [Type |-> "PodResourcesResizeStatus", Status |-> status, Message |-> message]

ResizeRequestPods ==
    {[Pod("p1", "n1", <<Container("c1", List(1, 1), List(2, 2))>>) EXCEPT
         !.Labels = labels,
         !.ResizeResourcesPolicy = policy,
         !.ResizeResources =
             Ptr(ResizeResources(<<Container("c1", requests, Nil)>>, "", "", Nil))] :
       labels \in {{}, {"app=a"}},
       policy \in {"", "InPlaceOnly", "Restart"},
       requests \in {List(2, 1), List(4, 1)}}

ResizeOutcomePods ==
    {[Pod("p1", "n1", <<Container("c1", List(2, 1), List(2, 2))>>) EXCEPT
         !.ResourceVersion = "2",
         !.Conditions = <<ResizeStatus(status, "1")>>,
         !.ResizeResources =
             Ptr(ResizeResources(<<>>, "1", "Update",
                                 Ptr(<<Container("c1", List(1, 1), List(2, 2))>>)))] :
       status \in {"True", "False"}}

CreatedPods == {Pod("p1", "n1", <<Container("c1", List(1, 1), List(2, 2))>>)}
\* The pod reporting that the resize decided at version "1" failed, and asking
\* for another that node n1 cannot hold.
ResizeRetryPods ==
    {[Pod("p1", "n1", <<Container("c1", List(2, 1), List(2, 2))>>) EXCEPT
         !.ResourceVersion = "2",
         !.ResizeResourcesPolicy = "InPlaceOnly",
         !.Conditions = <<ResizeStatus("False", "1")>>,
         !.ResizeResources =
             Ptr(ResizeResources(<<Container("c1", List(4, 1), Nil)>>, "1", "Update",
                                 Ptr(<<Container("c1", List(1, 1), List(2, 2))>>)))]}

\* The pod reporting that the resize decided at version "1" failed, behind
\* another condition: one of another type, or the resize status of an earlier
\* action, of version "0".
ResizeLaterStatusPods ==
    {[Pod("p1", "n1", <<Container("c1", List(2, 1), List(2, 2))>>) EXCEPT
         !.ResourceVersion = "2",
         !.Conditions = <<first, ResizeStatus("False", "1")>>,
         !.ResizeResources =
             Ptr(ResizeResources(<<>>, "1", "Update",
                                 Ptr(<<Container("c1", List(1, 1), List(2, 2))>>)))] :
       first \in {[Type |-> "Ready", Status |-> "True", Message |-> ""],
                  ResizeStatus("True", "0")}}

\* The pod asking for more memory: 3 of the 4 that node n1 has, and all 4.
ResizeMemoryPods ==
    {[Pod("p1", "n1", <<Container("c1", List(1, 1), List(2, 2))>>) EXCEPT
         !.ResizeResourcesPolicy = "InPlaceOnly",
         !.ResizeResources =
             Ptr(ResizeResources(<<Container("c1", List(1, memory), Nil)>>, "", "", Nil))] :
       memory \in {3, 4}}

ResizePodInputs ==
    CreatedPods \cup ResizeRequestPods \cup ResizeOutcomePods \cup ResizeRetryPods
    \cup ResizeLaterStatusPods

\* The pods of the capacity specification: p1 as created, asking for CPU or
\* for memory without labels, and reporting an outcome.
FitPodInputs ==
    CreatedPods \cup {pod \in ResizeRequestPods : pod.Labels = {}}
    \cup ResizeOutcomePods \cup ResizeRetryPods \cup ResizeMemoryPods
\* The previous object of an update or a removal: the pod as created, or as
\* resized.
ResizeOldPods == CreatedPods \cup ResizeOutcomePods

\* The pods of the listing specification: p1 without labels on n1, p1
\* labelled on n2, p2 labelled on n1, and p2 being deleted.
ListPodInputs ==
    {Pod("p1", "n1", <<Container("c1", List(1, 1), Nil)>>),
     [Pod("p1", "n2", <<Container("c1", List(1, 1), Nil)>>) EXCEPT !.Labels = {"app=a"}],
     [Pod("p2", "n1", <<Container("c1", List(1, 1), Nil)>>) EXCEPT !.Labels = {"app=a"}],
     [Pod("p2", "n1", <<Container("c1", List(1, 1), Nil)>>) EXCEPT
         !.Labels = {"app=a"}, !.DeletionTimestamp = Ptr(1)]}
ListSelectors == {{}, {"app=a"}}

LabelSelector(matchLabels, valid) == Ptr([MatchLabels |-> matchLabels, valid |-> valid])
PDBInputs ==
    {PodDisruptionBudget("b1", LabelSelector({"app=a"}, TRUE), allowed) : allowed \in {0, 1}}
    \cup {PodDisruptionBudget("b2", selector, 0) :
             selector \in {Nil, LabelSelector({}, TRUE), LabelSelector({"app=a"}, FALSE)}}

CopyPodInputs ==
    CreatedPods \cup ResizeOutcomePods
    \cup {pod \in ResizeRequestPods :
             /\ pod.Labels = {}
             /\ pod.ResizeResourcesPolicy = ""
             /\ Deref(pod.ResizeResources).Request[1].Requests = List(2, 1)}

CopyPDBInputs == {pdb \in PDBInputs : pdb.UID = "b1"}

\* ------------------------------------------------------------------ claims
\* The pods of node info n, as keys, and the nodes that hold a pod of a key.
Holds(ns, name, key) == name \in DOMAIN ns /\ PodIndexes(ns[name], key) # {}
HoldsOnce(ns, name, key) == name \in DOMAIN ns /\ Cardinality(PodIndexes(ns[name], key)) = 1

\* C1: every key of assumedPods is a key of podStates, and the reaper never
\* ends in its "key found in assumed set but not in podStates" panic.
C1_AssumedHaveState ==
    /\ assumedPods \subseteq DOMAIN podStates
    /\ fatal # "dangling"

\* The reaper has run over a non-empty assumed set and left an entry in it.
C1_Witness ==
    /\ last.op = "cleanupAssumedPods"
    /\ assumedPods # {}
    /\ \E key \in DOMAIN podStates : key \notin assumedPods

\* C2: every key of podStates is held exactly once by the NodeInfo stored
\* under the node name of its cached pod.
C2_StateOnItsNode ==
    \A key \in DOMAIN podStates : HoldsOnce(nodes, podStates[key].pod.node, key)

\* An assumed pod was confirmed by an Add naming another node than the
\* one it was assumed on, beside a second pod.
C2_Witness ==
    /\ last.op = "AddPod" /\ ~last.err
    /\ "p1" \in DOMAIN podStates /\ "p1" \notin assumedPods
    /\ podStates["p1"].pod.node = "n2"
    /\ "n1" \in DOMAIN nodes /\ Holds(nodes, "n1", "p2")
    /\ podStates["p1"].bindingFinished

RECURSIVE SumPods(_)
SumPods(pods) ==
    IF pods = <<>> THEN ZeroResource
    ELSE ResourceAdd(calculateResource(Head(pods)), SumPods(Tail(pods)))

\* C3: the requestedResource of every NodeInfo is the sum of the resource
\* requests of the pods in its pods collection.
C3_RequestedIsSum ==
    \A name \in DOMAIN nodes :
        nodes[name].requestedResource = SumPods(nodes[name].pods)

\* C4: for an assumed pod, the deadline is set exactly when bindingFinished is.
C4_DeadlineIffBound ==
    \A key \in assumedPods :
        key \in DOMAIN podStates =>
            ((podStates[key].deadline # Nil) <=> podStates[key].bindingFinished)

\* Of two assumed pods one has finished binding and the other has not.
C4_Witness ==
    /\ assumedPods = {"p1", "p2"}
    /\ podStates["p1"].bindingFinished /\ podStates["p1"].deadline # Nil
    /\ ~podStates["p2"].bindingFinished

\* C11: a tick of the reaper at time now leaves every pod as it was unless
\* its key is in assumedPods, its bindingFinished is true and now is
\* strictly after its deadline: a confirmed pod, an assumed pod whose
\* binding is in progress and one whose deadline has not passed keep their
\* state, their place in assumedPods and their place on their node.
C11_Expirable(key) ==
    /\ key \in assumedPods
    /\ key \in DOMAIN podStates
    /\ podStates[key].bindingFinished
    /\ podStates[key].deadline # Nil
    /\ now > Deref(podStates[key].deadline)

C11_Kept(key) ==
    /\ key \in DOMAIN podStates'
    /\ podStates'[key] = podStates[key]
    /\ (key \in assumedPods') = (key \in assumedPods)
    /\ \A n \in DOMAIN nodes :
          Holds(nodes, n, key) =>
              /\ n \in DOMAIN nodes'
              /\ Cardinality(PodIndexes(nodes'[n], key)) = Cardinality(PodIndexes(nodes[n], key))

C11_ReaperRemovesOnlyExpired ==
    [][cleanupAssumedPods =>
          \A key \in DOMAIN podStates : ~C11_Expirable(key) => C11_Kept(key)]_vars

\* A tick of the reaper has expired p1 and left p2 in place, which is
\* assumed and bound with the deadline now: its deadline has not passed.
C11_Witness ==
    /\ last.op = "cleanupAssumedPods" /\ last.expired = {"p1"}
    /\ "p1" \notin DOMAIN podStates
    /\ "p2" \in assumedPods /\ podStates["p2"].bindingFinished
    /\ podStates["p2"].deadline = {now}
    /\ Holds(nodes, "n1", "p2")

\* C12: a pod that is assumed and whose binding has finished, for which no
\* Add and no Forget arrives, is eventually in neither assumedPods nor
\* podStates and on no node, and its node accounts for the pods that remain
\* on it and nothing more, while the process lives.  Checked for pod p1 under
\* SpecExpiry, whose environment sends no Add and no Forget for p1.
C12_Bound ==
    /\ "p1" \in assumedPods
    /\ "p1" \in DOMAIN podStates
    /\ podStates["p1"].bindingFinished

C12_Returned ==
    /\ "p1" \notin assumedPods
    /\ "p1" \notin DOMAIN podStates
    /\ \A n \in DOMAIN nodes :
          /\ ~Holds(nodes, n, "p1")
          /\ nodes[n].requestedResource = SumPods(nodes[n].pods)

C12_ExpiresEventually == C12_Bound ~> (C12_Returned \/ ~Running)

\* The reaper has expired p1, which had been assumed on the node of p2 with
\* a request of 2 CPU, and the node is back to the request of p2.
C12_Witness ==
    /\ last.op = "cleanupAssumedPods" /\ last.expired = {"p1"}
    /\ C12_Returned
    /\ Holds(nodes, "n1", "p2")
    /\ nodes["n1"].generation >= 3
    /\ nodes["n1"].requestedResource = Resource(1, 1)

\* C13: a thread is past Lock and before the end of Unlock only while it
\* holds cache.mu, so one thread at a time reads or writes the cache; every
\* step that changes nodes, podStates, assumedPods or pdbs, or ends the
\* process, is the whole effect of one call run alone on the cache as it
\* then is (FinishBinding and the reaper with a time read no later than
\* now), and no call panics; and when ForgetPod, AddPod and the reaper race
\* for one assumed pod, every node accounts for the pods it holds and the pod
\* is held once, by the node of its state, or not at all.
C13_MutualExclusion ==
    \A th \in Threads : calls[th].pc \in {"read", "write", "unlock"} => mu = th

C13_AssumeEffect(pod) ==
    LET key == getPodKey(pod) IN
    /\ key \notin DOMAIN podStates
    /\ nodes' = addPod(nodes, pod)
    /\ podStates' = MapPut(podStates, key, newPodState(pod))
    /\ assumedPods' = assumedPods \cup {key}

C13_FinishEffect(pod, t) ==
    LET key == getPodKey(pod) IN
    /\ key \in DOMAIN podStates /\ key \in assumedPods
    /\ podStates' = [podStates EXCEPT ![key] = boundState(@, t)]
    /\ UNCHANGED <<nodes, assumedPods>>

C13_ForgetEffect(pod) ==
    LET key == getPodKey(pod) IN
    /\ key \in DOMAIN podStates /\ key \in assumedPods
    /\ podStates[key].pod.node = pod.node
    /\ removePod(nodes, pod).status = "ok"
    /\ nodes' = removePod(nodes, pod).nodes
    /\ assumedPods' = assumedPods \ {key}
    /\ podStates' = MapDel(podStates, key)

C13_AddEffect(pod) ==
    LET key == getPodKey(pod) IN
    IF key \in DOMAIN podStates
    THEN /\ key \in assumedPods
         /\ confirmAssumed(nodes, podStates[key].pod, pod).status = "ok"
         /\ nodes' = confirmAssumed(nodes, podStates[key].pod, pod).nodes
         /\ assumedPods' = assumedPods \ {key}
         /\ podStates' = [podStates EXCEPT ![key] = confirmedState(@, pod)]
    ELSE /\ nodes' = addPod(nodes, pod)
         /\ podStates' = MapPut(podStates, key, newPodState(pod))
         /\ UNCHANGED assumedPods

C13_ReapEffect(t) ==
    \E keys \in Orders(assumedPods) :
        LET c == cleanupLoop([nodes |-> nodes, podStates |-> podStates,
                              assumedPods |-> assumedPods, status |-> "ok"], keys, t)
        IN /\ c.status = "ok"
           /\ nodes' = c.nodes
           /\ podStates' = c.podStates
           /\ assumedPods' = c.assumedPods

C13_SerialStep ==
    /\ UNCHANGED <<pdbs, fatal>>
    /\ \/ \E pod \in PodInputs :
             \/ C13_AssumeEffect(pod)
             \/ C13_ForgetEffect(pod)
             \/ C13_AddEffect(pod)
             \/ \E t \in 0..now : C13_FinishEffect(pod, t)
       \/ \E t \in 0..now : C13_ReapEffect(t)

C13_Accounting ==
    /\ \A n \in DOMAIN nodes :
          /\ nodes[n].requestedResource = SumPods(nodes[n].pods)
          /\ \A i \in DOMAIN nodes[n].pods :
                /\ getPodKey(nodes[n].pods[i]) \in DOMAIN podStates
                /\ podStates[getPodKey(nodes[n].pods[i])].pod.node = n
    /\ \A key \in DOMAIN podStates : HoldsOnce(nodes, podStates[key].pod.node, key)

C13_Serial ==
    /\ []C13_MutualExclusion
    /\ [][C13_SerialStep]_<<nodes, podStates, assumedPods, pdbs, fatal>>
    /\ []C13_Accounting

\* The reaper, with the lock, has expired p1 and is about to unlock, while
\* ForgetPod and AddPod for p1 wait for the lock.
C13_Witness ==
    /\ calls["reaper"].pc = "unlock" /\ calls["reaper"].expired = {"p1"}
    /\ mu = "reaper"
    /\ calls["scheduler"].pc = "lock" /\ calls["scheduler"].op = "ForgetPod"
    /\ calls["feed"].pc = "lock" /\ calls["feed"].op = "AddPod"
    /\ "p1" \notin DOMAIN podStates /\ nodes = EmptyMap

\* The call returned an error to its caller and left the cache as it was.
Refused == last'.err /\ fatal' = "none" /\ UNCHANGED cacheVars

\* The call returned nil.
Succeeded == ~last'.err /\ fatal' = "none"

\* Node infos other than the one called name are left as they were.
OtherNodesKept(name) ==
    /\ DOMAIN nodes' \ {name} = DOMAIN nodes \ {name}
    /\ \A n \in DOMAIN nodes \ {name} : nodes'[n] = nodes[n]

PodsOf(ns, name) == IF name \in DOMAIN ns THEN ns[name].pods ELSE <<>>

\* C5: AssumePod(w) succeeds exactly when w's key is not in podStates; on
\* success the key is in podStates with no deadline and bindingFinished
\* false, the key is in assumedPods and w is appended to the pods of the
\* NodeInfo under w's node name, which is created if missing; otherwise it
\* returns an error and nodes, podStates and assumedPods are unchanged.
C5_Post(w) ==
    LET key == getPodKey(w) IN
    IF key \in DOMAIN podStates THEN Refused
    ELSE /\ Succeeded
         /\ podStates' = MapPut(podStates, key, PodState(w, Nil, FALSE))
         /\ assumedPods' = assumedPods \cup {key}
         /\ w.node \in DOMAIN nodes'
         /\ nodes'[w.node].pods = Append(PodsOf(nodes, w.node), w)
         /\ OtherNodesKept(w.node)

C5_AssumePod == [][\A w \in PodInputs : AssumePod(w) => C5_Post(w)]_vars

\* AssumePod has created the NodeInfo of n2 for the pod it assumed.
C5_Witness ==
    /\ last.op = "AssumePod" /\ ~last.err
    /\ "p1" \in assumedPods /\ podStates["p1"].pod.node = "n2"
    /\ Len(nodes["n2"].pods) = 1 /\ nodes["n2"].generation = 1
    /\ "p2" \in DOMAIN podStates

\* C6: AddPod(w) for a pod that was assumed and whose binding has finished,
\* whether it is still assumed (before or after its deadline) or has been
\* expired by the reaper, succeeds and leaves the key in podStates, out of
\* assumedPods, without deadline and held once by the node the Add names.
C6_Pre(w) ==
    LET key == getPodKey(w) IN
    \/ key \notin DOMAIN podStates
    \/ key \in assumedPods /\ podStates[key].bindingFinished

C6_Post(w) ==
    LET key == getPodKey(w) IN
    /\ Succeeded
    /\ key \in DOMAIN podStates'
    /\ key \notin assumedPods'
    /\ podStates'[key].deadline = Nil
    /\ HoldsOnce(nodes', w.node, key)

C6_AddAfterBinding == [][\A w \in PodInputs : AddPod(w) /\ C6_Pre(w) => C6_Post(w)]_vars

\* An Add has confirmed a pod whose binding had finished, at the last
\* instant of the clock.
C6_Witness ==
    /\ last.op = "AddPod" /\ ~last.err
    /\ "p1" \in DOMAIN podStates /\ "p1" \notin assumedPods
    /\ podStates["p1"].bindingFinished /\ podStates["p1"].deadline = Nil
    /\ now = MaxTime

\* C7: AddPod(w) on an assumed key takes the key out of assumedPods, clears
\* the deadline, makes w the cached pod and leaves the key held once by w's
\* node and by no other node.
C7_Pre(w) == getPodKey(w) \in DOMAIN podStates /\ getPodKey(w) \in assumedPods

C7_Post(w) ==
    LET key == getPodKey(w) IN
    /\ Succeeded
    /\ assumedPods' = assumedPods \ {key}
    /\ podStates' = [podStates EXCEPT ![key].deadline = Nil, ![key].pod = w]
    /\ HoldsOnce(nodes', w.node, key)
    /\ \A n \in DOMAIN nodes' \ {w.node} : ~Holds(nodes', n, key)
    /\ podStates[key].pod.node # w.node =>
          nodes'[w.node].pods = Append(PodsOf(nodes, w.node), w)

C7_AddConfirms == [][\A w \in PodInputs : AddPod(w) /\ C7_Pre(w) => C7_Post(w)]_vars

\* A pod assumed on n1 beside another pod has been confirmed on n2.
C7_Witness ==
    /\ last.op = "AddPod" /\ ~last.err
    /\ "p1" \in DOMAIN podStates /\ "p1" \notin assumedPods
    /\ ~podStates["p1"].bindingFinished
    /\ podStates["p1"].pod.node = "n2" /\ HoldsOnce(nodes, "n2", "p1")
    /\ "n1" \in DOMAIN nodes /\ nodes["n1"].generation = 3

\* C8: FinishBinding(w) at time now sets bindingFinished and the deadline
\* now + ttl when w's key is in podStates and assumed, and changes nothing
\* otherwise; it returns no error; a confirmed pod never has a deadline.
C8_Post(w) ==
    LET key == getPodKey(w) IN
    /\ Succeeded
    /\ UNCHANGED <<nodes, assumedPods>>
    /\ IF key \in DOMAIN podStates /\ key \in assumedPods
       THEN podStates' = [podStates EXCEPT ![key].bindingFinished = TRUE,
                                           ![key].deadline = {now + Ttl}]
       ELSE UNCHANGED podStates

C8_ConfirmedNoDeadline ==
    \A key \in DOMAIN podStates \ assumedPods : podStates[key].deadline = Nil

C8_FinishBinding ==
    /\ [][\A w \in PodInputs : FinishBinding(w) => C8_Post(w)]_vars
    /\ []C8_ConfirmedNoDeadline

\* FinishBinding has been called for a pod an Add had already confirmed,
\* while another pod is assumed and bound.
C8_Witness ==
    /\ last.op = "FinishBinding"
    /\ "p1" \in DOMAIN podStates /\ "p1" \notin assumedPods
    /\ ~podStates["p1"].bindingFinished
    /\ "p2" \in assumedPods /\ podStates["p2"].deadline = {now + Ttl}

\* C9 as stated: a second FinishBinding on a pod that is still assumed
\* leaves the cache exactly as the first call left it.
C9_Second(w) ==
    /\ getPodKey(w) \in assumedPods
    /\ getPodKey(w) \in DOMAIN podStates
    /\ podStates[getPodKey(w)].bindingFinished

C9_Idempotent ==
    [][\A w \in PodInputs : FinishBinding(w) /\ C9_Second(w) => UNCHANGED cacheVars]_vars

\* C9 as amended: a second FinishBinding on a still-assumed pod changes
\* nothing but that pod's deadline, which becomes the time of the second
\* call plus ttl; the cache is unchanged when the clock has not advanced.
C9_Post(w) ==
    LET key == getPodKey(w) IN
    /\ UNCHANGED <<nodes, assumedPods>>
    /\ podStates' = [podStates EXCEPT ![key].deadline = {now + Ttl}]
    /\ podStates[key].deadline = {now + Ttl} => UNCHANGED cacheVars

C9_IdempotentButDeadline ==
    [][\A w \in PodInputs : FinishBinding(w) /\ C9_Second(w) => C9_Post(w)]_vars

\* A bound pod whose deadline is later than the first FinishBinding, at
\* time 0, can have set: FinishBinding was called again after a tick.
C9_Witness ==
    /\ last.op = "FinishBinding"
    /\ "p1" \in assumedPods /\ podStates["p1"].bindingFinished
    /\ podStates["p1"].deadline = {now + Ttl} /\ now = MaxTime
    /\ "p2" \in assumedPods /\ podStates["p2"].deadline = {Ttl}

\* C10: ForgetPod(w) succeeds only for a key that is in podStates and
\* assumed, with w's node name equal to the cached pod's; it then removes the
\* pod from that node and deletes the key from assumedPods and podStates;
\* otherwise it returns an error and changes nothing.
C10_Pre(w) ==
    LET key == getPodKey(w) IN
    /\ key \in DOMAIN podStates
    /\ key \in assumedPods
    /\ podStates[key].pod.node = w.node

C10_Post(w) ==
    LET key == getPodKey(w) IN
    IF C10_Pre(w)
    THEN /\ Succeeded
         /\ assumedPods' = assumedPods \ {key}
         /\ podStates' = MapDel(podStates, key)
         /\ ~Holds(nodes', w.node, key)
         /\ PodsOf(nodes', w.node) = RemoveAt(nodes[w.node].pods, CHOOSE i \in PodIndexes(nodes[w.node], key) : TRUE)
         /\ OtherNodesKept(w.node)
    ELSE Refused

C10_ForgetPod == [][\A w \in PodInputs : ForgetPod(w) => C10_Post(w)]_vars

\* An assumed pod has been forgotten and the NodeInfo of its node, which
\* held nothing else, is gone, while a confirmed pod stays.
C10_Witness ==
    /\ last.op = "ForgetPod" /\ ~last.err
    /\ "p1" \notin DOMAIN podStates
    /\ "n2" \notin DOMAIN nodes
    /\ "p2" \in DOMAIN podStates /\ "p2" \notin assumedPods
    /\ now > 0

Next ==
    \/ \E pod \in PodInputs : AssumePod(pod)
    \/ \E pod \in PodInputs : FinishBinding(pod)
    \/ \E pod \in PodInputs : ForgetPod(pod)
    \/ \E pod \in PodInputs : AddPod(pod)
    \/ \E oldPod, newPod \in PodInputs : UpdatePod(oldPod, newPod)
    \/ \E pod \in PodInputs : RemovePod(pod)
    \/ \E node \in NodeInputs : AddNode(node)
    \/ \E oldNode, newNode \in NodeInputs : UpdateNode(oldNode, newNode)
    \/ \E node \in NodeInputs : RemoveNode(node)
    \/ cleanupAssumedPods
    \/ Tick

Spec == Init /\ [][Next]_vars

\* C14: AddPod(w) on a key that is in podStates and not in assumedPods
\* returns an error and leaves nodes, podStates and assumedPods unchanged.
C14_Pre(w) == getPodKey(w) \in DOMAIN podStates /\ getPodKey(w) \notin assumedPods

C14_AddConfirmedRefused ==
    [][\A w \in PodInputs : AddPod(w) /\ C14_Pre(w) => Refused]_vars

\* A second Add for p1, confirmed on n1 beside the assumed p2, was refused.
C14_Witness ==
    /\ last.op = "AddPod" /\ last.err
    /\ "p1" \in DOMAIN podStates /\ "p1" \notin assumedPods
    /\ HoldsOnce(nodes, "n1", "p1")
    /\ "p2" \in assumedPods

\* C15: UpdatePod(oldW, newW) and RemovePod(w) on a key that is not in
\* podStates, or that is in assumedPods, return an error and leave nodes,
\* podStates and assumedPods unchanged; so an Update or a Remove that
\* succeeds was on a key an Add had confirmed.
C15_Pre(w) == getPodKey(w) \notin DOMAIN podStates \/ getPodKey(w) \in assumedPods

C15_UpdateRemoveRefused ==
    /\ [][\A oldW, newW \in PodInputs :
             UpdatePod(oldW, newW) /\ C15_Pre(oldW) => Refused]_vars
    /\ [][\A w \in PodInputs : RemovePod(w) /\ C15_Pre(w) => Refused]_vars

\* A Remove was refused while every pod the cache knows is assumed, one of
\* them bound.
C15_Witness ==
    /\ last.op = "RemovePod" /\ last.err /\ fatal = "none"
    /\ assumedPods = {"p1", "p2"}
    /\ podStates["p1"].bindingFinished

\* C16 as stated: UpdatePod(oldW, newW) on a confirmed key with oldW and
\* newW on different nodes, and RemovePod(w) on a confirmed key with w on
\* another node than the cached pod, end the process, return no error to the
\* caller and leave the cache unchanged.
C16_Confirmed(w) == getPodKey(w) \in DOMAIN podStates /\ getPodKey(w) \notin assumedPods

C16_Cached(w) == podStates[getPodKey(w)].pod

C16_OldNewMismatchFatal ==
    /\ [][\A oldW, newW \in PodInputs :
             UpdatePod(oldW, newW) /\ C16_Confirmed(oldW) /\ oldW.node # newW.node
                 => fatal' # "none" /\ UNCHANGED cacheVars]_vars
    /\ [][\A w \in PodInputs :
             RemovePod(w) /\ C16_Confirmed(w) /\ C16_Cached(w).node # w.node
                 => fatal' # "none" /\ UNCHANGED cacheVars]_vars

\* C16 as amended: UpdatePod(oldW, newW) on a confirmed key with newW on
\* another node than the cached pod, and RemovePod(w) on a confirmed key
\* with w on another node than the cached pod, end the process by
\* glog.Fatalf, return no error to the caller and leave the cache unchanged.
C16_CachedMismatchFatal ==
    /\ [][\A oldW, newW \in PodInputs :
             UpdatePod(oldW, newW) /\ C16_Confirmed(oldW) /\ C16_Cached(oldW).node # newW.node
                 => fatal' = "Fatalf" /\ UNCHANGED cacheVars]_vars
    /\ [][\A w \in PodInputs :
             RemovePod(w) /\ C16_Confirmed(w) /\ C16_Cached(w).node # w.node
                 => fatal' = "Fatalf" /\ UNCHANGED cacheVars]_vars

\* An Update naming n1 has ended the process: the cache holds p1 as
\* confirmed on n2.
C16_Witness ==
    /\ fatal = "Fatalf" /\ last.op = "UpdatePod"
    /\ "p1" \in DOMAIN podStates /\ "p1" \notin assumedPods
    /\ podStates["p1"].pod.node = "n2" /\ HoldsOnce(nodes, "n2", "p1")

\* C17: after UpdatePod(oldW, newW) has returned nil on a confirmed pod,
\* GetPod for the key returns newW, and the pods of newW's node hold newW,
\* and no other pod of that key, exactly once.
C17_Post(newW) ==
    /\ GetPod(newW)' = [pod |-> Ptr(newW), err |-> FALSE]
    /\ newW.node \in DOMAIN nodes'
    /\ Cardinality({i \in DOMAIN nodes'[newW.node].pods : nodes'[newW.node].pods[i] = newW}) = 1
    /\ HoldsOnce(nodes', newW.node, getPodKey(newW))

C17_UpdateVisible ==
    [][\A oldW, newW \in PodInputs :
          UpdatePod(oldW, newW) /\ C16_Confirmed(oldW) /\ Succeeded => C17_Post(newW)]_vars

\* C18: RemovePod(w) on a confirmed key whose cached nodeName is w's returns
\* nil, leaves the key in no node's pods and in neither map, so that GetPod
\* fails; and AssumePod or AddPod of a key without state, a removed one
\* included, returns nil and records the pod as for a key never seen.
C18_Pre(w) == C16_Confirmed(w) /\ C16_Cached(w).node = w.node

C18_Gone(w) ==
    /\ getPodKey(w) \notin DOMAIN podStates
    /\ getPodKey(w) \notin assumedPods
    /\ \A name \in DOMAIN nodes : PodIndexes(nodes[name], getPodKey(w)) = {}
    /\ GetPod(w) = [pod |-> Nil, err |-> TRUE]

C18_Fresh(w, assumed) ==
    /\ Succeeded
    /\ getPodKey(w) \in DOMAIN podStates'
    /\ podStates'[getPodKey(w)].pod = w
    /\ podStates'[getPodKey(w)].deadline = Nil
    /\ (getPodKey(w) \in assumedPods') = assumed
    /\ HoldsOnce(nodes', w.node, getPodKey(w))
    /\ \A name \in DOMAIN nodes' \ {w.node} : PodIndexes(nodes'[name], getPodKey(w)) = {}

C18_RemovePod ==
    /\ [][\A w \in PodInputs : RemovePod(w) /\ C18_Pre(w) => Succeeded /\ C18_Gone(w)']_vars
    /\ [][\A w \in PodInputs : AssumePod(w) /\ C18_Gone(w) => C18_Fresh(w, TRUE)]_vars
    /\ [][\A w \in PodInputs : AddPod(w) /\ C18_Gone(w) => C18_Fresh(w, FALSE)]_vars
    /\ [](\A w \in PodInputs : getPodKey(w) \notin DOMAIN podStates => C18_Gone(w))

\* RemovePod has just removed p1 from n1, which stays in the cache for its
\* descriptor.
C18_Witness ==
    /\ last = Call("RemovePod", FALSE)
    /\ fatal = "none"
    /\ C18_Gone(Pod("p1", "n1", <<>>))
    /\ "n1" \in DOMAIN nodes
    /\ nodes["n1"].generation >= 3

\* C19: a step deletes a NodeInfo only when it leaves it without pods and
\* without descriptor: RemoveNode deletes only a NodeInfo with no pods, any
\* other step only one without descriptor, all of whose pods it removes;
\* RemoveNode on a node with pods keeps the NodeInfo with the descriptor
\* cleared, and a node with a descriptor outlives the removal of its pods.
C19_Deleted(name) == name \in DOMAIN nodes /\ name \notin DOMAIN nodes'

C19_StaysOn(name, pod) ==
    /\ getPodKey(pod) \in DOMAIN podStates'
    /\ podStates'[getPodKey(pod)].pod.node = name

C19_DeletedEmpty(name) ==
    IF last'.op = "RemoveNode"
    THEN nodes[name].pods = <<>>
    ELSE /\ nodes[name].node = Nil
         /\ \A i \in DOMAIN nodes[name].pods : ~C19_StaysOn(name, nodes[name].pods[i])

C19_RemoveNodeKeeps(name) ==
    last'.op = "RemoveNode" /\ nodes[name].pods # <<>> =>
        /\ name \in DOMAIN nodes'
        /\ nodes'[name].pods = nodes[name].pods
        /\ nodes'[name].node = Nil

C19_DescriptorKeeps(name) ==
    last'.op # "RemoveNode" /\ nodes[name].node # Nil =>
        name \in DOMAIN nodes' /\ nodes'[name].node # Nil

C19_NodeInfoDeletion ==
    /\ [][\A name \in NodeNames : C19_Deleted(name) => C19_DeletedEmpty(name)]_vars
    /\ [][\A node \in NodeInputs :
             RemoveNode(node) /\ node.Name \in DOMAIN nodes => C19_RemoveNodeKeeps(node.Name)]_vars
    /\ [][\A name \in DOMAIN nodes : C19_DescriptorKeeps(name)]_vars

\* RemoveNode has cleared the descriptor of n1, which keeps its NodeInfo for
\* the pod p1; n2 has lost its NodeInfo with its last pod.
C19_Witness ==
    /\ last = Call("RemoveNode", FALSE)
    /\ "n1" \in DOMAIN nodes
    /\ nodes["n1"].node = Nil
    /\ PodIndexes(nodes["n1"], "p1") # {}
    /\ "n2" \notin DOMAIN nodes

\* C20: when UpdateNodeNameToInfoMap returns, the caller's map has exactly
\* the node names of the cache, each with the content (pods, requested
\* resources, descriptor, generation) of the cache's NodeInfo, whatever the
\* cache operations since the previous call on the same map.
C20_SameContent(a, b) ==
    /\ a.pods = b.pods
    /\ a.requestedResource = b.requestedResource
    /\ a.node = b.node
    /\ a.generation = b.generation

C20_TargetIsCache ==
    [][UpdateNodeNameToInfoMap =>
          /\ DOMAIN nodeNameToInfo' = DOMAIN nodes
          /\ \A name \in DOMAIN nodes : C20_SameContent(nodeNameToInfo'[name], nodes[name])]_vars

\* C21: under every node name that a step keeps in the cache the generation
\* does not decrease, and it grows with every change of the node's pods or
\* descriptor made by the step.
C21_Mutated(name) ==
    \/ nodes'[name].pods # nodes[name].pods
    \/ nodes'[name].node # nodes[name].node

C21_Set(node) == AddNode(node) \/ (\E oldNode \in NodeInputs : UpdateNode(oldNode, node))

C21_Grows(name) ==
    /\ nodes'[name].generation >= nodes[name].generation
    /\ C21_Mutated(name) => nodes'[name].generation > nodes[name].generation

C21_Replaced(name) ==
    /\ last'.op = "UpdatePod"
    /\ nodes[name].node = Nil
    /\ Len(nodes[name].pods) = 1
    /\ nodes'[name] # nodes[name]

C21_GenerationOfNodeInfo ==
    /\ [][\A name \in DOMAIN nodes \cap DOMAIN nodes' :
             ~C21_Replaced(name) => C21_Grows(name)]_vars
    /\ [][\A node \in NodeInputs :
             C21_Set(node) /\ node.Name \in DOMAIN nodes =>
                 nodes'[node.Name].generation > nodes[node.Name].generation]_vars

\* C22: IsUpToDate(n), n a clone the caller holds for a node name, returns,
\* and returns true only when the cache holds a NodeInfo under the name whose
\* pods and descriptor are the clone's, as they are when no change was
\* applied since the clone was made; it returns false when the name is not in
\* the cache.
C22_Post(name) ==
    /\ fatal' = "none"
    /\ last'.result =>
          name \in DOMAIN nodes /\ C20_SameContent(nodeNameToInfo[name], nodes[name])
    /\ name \notin DOMAIN nodes => ~last'.result

C22_IsUpToDate ==
    [][\A name \in DOMAIN nodeNameToInfo :
          IsUpToDate(nodeNameToInfo[name]) => C22_Post(name)]_vars

\* C22, for clones that have a descriptor.
C22_IsUpToDateWithNode ==
    [][\A name \in DOMAIN nodeNameToInfo :
          IsUpToDate(nodeNameToInfo[name]) /\ nodeNameToInfo[name].node # Nil
              => C22_Post(name)]_vars

\* ----------------------------------------------- the snapshot specification
\* The scheduler reconciles one map of its own between operations of the
\* pod and node feeds.
NextSnapshot ==
    \/ \E pod \in PodInputs : AddPod(pod)
    \/ \E oldPod, newPod \in PodInputs : UpdatePod(oldPod, newPod)
    \/ \E pod \in PodInputs : RemovePod(pod)
    \/ \E node \in NodeInputs : AddNode(node)
    \/ \E node \in NodeInputs : RemoveNode(node)
    \/ UpdateNodeNameToInfoMap
    \/ \E name \in DOMAIN nodeNameToInfo : IsUpToDate(nodeNameToInfo[name])

SpecSnapshot == Init /\ [][NextSnapshot]_vars

\* C23: what the caller reads in the Nodes, AssumedPods and Pdbs of its
\* Snapshot is what the cache held when Snapshot returned, whatever the cache
\* does later, an in-place resize or a rollback included; and what the caller
\* does to its Snapshot changes nothing in the cache.
C23_CacheStep == ~Snapshot /\ ~(\E name \in NodeNames : SnapshotDelete(name))

UpdateLeft(newW) ==
    /\ newW.node \in DOMAIN nodes'
    /\ \E i \in DOMAIN nodes'[newW.node].pods :
          LET held == nodes'[newW.node].pods[i] IN
          /\ getPodKey(held) = getPodKey(newW)
          /\ held.Labels = newW.Labels
          /\ held.ResizeResourcesPolicy = newW.ResizeResourcesPolicy
          /\ held.ResourceVersion = newW.ResourceVersion
          /\ held.Conditions = newW.Conditions

UpdateCall(newW) ==
    /\ last'.op = "UpdatePod"
    /\ last'.err \/ fatal' # "none" \/ UpdateLeft(newW)

\* C24: UpdatePod(oldW, newW) with a pending resize request and a policy
\* other than Restart commits the resize in place (action Update, the named
\* containers' resources saved as rollback records and overwritten in newW
\* and in the cached pod, request cleared) exactly when the node's
\* allocatable is greater, on MilliCPU and on Memory, than what the node has
\* requested once oldW is removed plus what newW would request; with
\* equality on either the resize is not committed.
C24_Pre(oldW, newW) ==
    /\ C16_Confirmed(oldW)
    /\ C16_Cached(oldW).node = newW.node
    /\ resizeApplies(oldW, newW)
    /\ ResizeOf(newW).Request # <<>>
    /\ newW.ResizeResourcesPolicy # "Restart"
    /\ removePod(nodes, oldW).status = "ok"
    /\ newW.node \in DOMAIN removePod(nodes, oldW).nodes

\* The last entry of the request that names container c, if any.
C24_Named(newW, c) == \E i \in DOMAIN ResizeOf(newW).Request : ResizeOf(newW).Request[i].Name = c.Name
C24_Entry(newW, c) ==
    LET req == ResizeOf(newW).Request IN
    req[CHOOSE i \in DOMAIN req : req[i].Name = c.Name /\ \A j \in DOMAIN req : req[j].Name = c.Name => j <= i]

C24_Resized(newW, c, name) ==
    IF C24_Named(newW, [Name |-> name])
    THEN [c EXCEPT !.Requests = SetAll(@, C24_Entry(newW, [Name |-> name]).Requests),
                   !.Limits = SetAll(@, C24_Entry(newW, [Name |-> name]).Limits)]
    ELSE c

RECURSIVE C24_Prospective(_, _)
C24_Prospective(newW, i) ==
    IF i = 0 THEN ZeroResource
    ELSE ResourceAdd(ResourceOf(C24_Resized(newW, newW.containers[i], newW.containers[i].Name).Requests),
                     C24_Prospective(newW, i - 1))

\* newW and the cached pod as the look at newW's resize status leaves them.
C24_Status(newW) == processPodResizeStatus(C16_Cached(newW), newW)

C24_Fits(oldW, newW) ==
    LET node == removePod(nodes, oldW).nodes[newW.node]
        want == C24_Prospective(C24_Status(newW).newPod, Len(newW.containers))
    IN /\ node.allocatableResource.MilliCPU > node.requestedResource.MilliCPU + want.MilliCPU
       /\ node.allocatableResource.Memory > node.requestedResource.Memory + want.Memory

C24_Held(ns, w) == ns[w.node].pods[CHOOSE i \in PodIndexes(ns[w.node], getPodKey(w)) : TRUE]

C24_Committed(newW) ==
    LET held == C24_Held(nodes', newW)
        cached == C24_Status(newW).cached
        was == C24_Status(newW).newPod
    IN /\ ResizeOf(held).Action = "Update"
       /\ ResizeOf(held).ActionVersion = newW.ResourceVersion
       /\ ResizeOf(held).Request = <<>>
       /\ ResizeOf(held).Rollback =
             Ptr(SelectSeq(was.containers, LAMBDA c : C24_Named(newW, c)))
       /\ held.containers =
             [i \in DOMAIN was.containers |->
                 C24_Resized(newW, was.containers[i], was.containers[i].Name)]
       /\ C16_Cached(newW)'.containers =
             [i \in DOMAIN cached.containers |->
                 IF i \in DOMAIN newW.containers
                 THEN C24_Resized(newW, cached.containers[i], newW.containers[i].Name)
                 ELSE cached.containers[i]]

C24_NotCommitted(newW) ==
    /\ HoldsOnce(nodes', newW.node, getPodKey(newW))
    /\ ResizeOf(C24_Held(nodes', newW)).Action # "Update"

C25_Pre(oldW, newW) ==
    C24_Pre(oldW, [newW EXCEPT !.ResizeResourcesPolicy = ""])

C25_Violated(pdb, labels) ==
    /\ pdb.Selector # Nil
    /\ Deref(pdb.Selector).valid
    /\ Deref(pdb.Selector).MatchLabels # {}
    /\ Deref(pdb.Selector).MatchLabels \subseteq labels
    /\ pdb.PodDisruptionsAllowed <= 0

C25_Consults(oldW, newW) ==
    /\ newW.ResizeResourcesPolicy \notin {"Restart", "InPlaceOnly"}
    /\ ~C24_Fits(oldW, newW)
    /\ newW.Labels # {}

C25_Action(oldW, newW) ==
    IF newW.ResizeResourcesPolicy = "Restart" THEN "Reschedule"
    ELSE IF C24_Fits(oldW, newW) THEN "Update"
    ELSE IF newW.ResizeResourcesPolicy = "InPlaceOnly" THEN "NonePerPolicy"
    ELSE IF newW.Labels # {} /\ \E uid \in DOMAIN pdbs : C25_Violated(pdbs[uid], newW.Labels)
    THEN "NonePerPDBViolation"
    ELSE "Reschedule"

C25_Stamped(oldW, newW) ==
    /\ HoldsOnce(nodes', newW.node, getPodKey(newW))
    /\ ResizeOf(C24_Held(nodes', newW)).Action = C25_Action(oldW, newW)
    /\ ResizeOf(C24_Held(nodes', newW)).ActionVersion = newW.ResourceVersion
    /\ ResizeOf(C24_Held(nodes', newW)).Request = <<>>

C25_ActionAsStated ==
    [][\A oldW \in ResizeOldPods, newW \in ResizePodInputs :
          UpdateCall(newW) /\ C25_Pre(oldW, newW) /\ UpdatePod(oldW, newW) =>
              fatal' = "none" /\ C25_Stamped(oldW, newW)]_vars

\* C25 as amended: the same, unless the budgets are consulted and one of
\* them has a selector that cannot be converted; UpdatePod may then return
\* the error of the conversion, with no action stamped on newW.
C25_SelectorError(oldW, newW) ==
    /\ C25_Consults(oldW, newW)
    /\ \E uid \in DOMAIN pdbs : pdbs[uid].Selector # Nil /\ ~Deref(pdbs[uid].Selector).valid
    /\ HoldsOnce(nodes', newW.node, getPodKey(newW))
    /\ ResizeOf(C24_Held(nodes', newW)).Action = ResizeOf(newW).Action

C25_ActionUnlessSelectorError ==
    [][\A oldW \in ResizeOldPods, newW \in ResizePodInputs :
          UpdateCall(newW) /\ C25_Pre(oldW, newW) /\ UpdatePod(oldW, newW) =>
              /\ fatal' = "none"
              /\ IF last'.err THEN C25_SelectorError(oldW, newW)
                 ELSE C25_Stamped(oldW, newW)]_vars

\* UpdatePod has refused to reschedule p1, labelled app=a, for the budget b1
\* that selects it and allows no disruption.
C25_Witness ==
    /\ last = Call("UpdatePod", FALSE)
    /\ HoldsOnce(nodes, "n1", "p1")
    /\ nodes["n1"].pods[1].ResizeResources # Nil
    /\ ResizeOf(nodes["n1"].pods[1]).Action = "NonePerPDBViolation"
    /\ "b1" \in DOMAIN pdbs
    /\ pdbs["b1"].PodDisruptionsAllowed = 0

\* C26: when UpdatePod(oldW, newW), newW's container requests being oldW's,
\* decides a pending resize otherwise than by an in-place Update, it leaves
\* the cached pod's containers and the node's requestedResource as they
\* were and writes no rollback records.
C26_Pre(oldW, newW) ==
    /\ C25_Pre(oldW, newW)
    /\ [i \in DOMAIN newW.containers |-> newW.containers[i].Requests]
          = [i \in DOMAIN oldW.containers |-> oldW.containers[i].Requests]

C26_Decided(newW) ==
    /\ HoldsOnce(nodes', newW.node, getPodKey(newW))
    /\ ResizeOf(C24_Held(nodes', newW)).Action
          \in {"NonePerPolicy", "NonePerPDBViolation", "Reschedule"}

C26_Unchanged(newW) ==
    /\ C16_Cached(newW)'.containers = C16_Cached(newW).containers
    /\ nodes'[newW.node].requestedResource = nodes[newW.node].requestedResource
    /\ ResizeOf(C24_Held(nodes', newW)).Rollback \in {Nil, ResizeOf(newW).Rollback}

C26_NoResizeNoChange ==
    [][\A oldW \in ResizeOldPods, newW \in ResizePodInputs :
          UpdateCall(newW) /\ C26_Pre(oldW, newW) /\ UpdatePod(oldW, newW) /\ C26_Decided(newW)
              => C26_Unchanged(newW)]_vars

\* C26 as amended: the same for a call that does not roll back an earlier
\* resize, that is, whose newW does not report the failure of the last action
\* with rollback records; the values of a rollback are the matter of C27.
C26_RollsBack(newW) ==
    \/ C24_Status(newW).cached # C16_Cached(newW)
    \/ C24_Status(newW).newPod.containers # newW.containers

C26_NoResizeNoChangeButRollback ==
    [][\A oldW \in ResizeOldPods, newW \in ResizePodInputs :
          UpdateCall(newW) /\ C26_Pre(oldW, newW) /\ UpdatePod(oldW, newW) /\ C26_Decided(newW)
              /\ ~C26_RollsBack(newW)
              => C26_Unchanged(newW)]_vars

\* UpdatePod has refused by policy the resize of p1 as it was created: n1's
\* pod is stamped NonePerPolicy without rollback records, and the cached pod
\* and the node stay at 1 CPU.
C26_Witness ==
    /\ last = Call("UpdatePod", FALSE)
    /\ HoldsOnce(nodes, "n1", "p1")
    /\ nodes["n1"].pods[1].ResizeResources # Nil
    /\ nodes["n1"].pods[1].Conditions = <<>>
    /\ ResizeOf(nodes["n1"].pods[1]).Action = "NonePerPolicy"
    /\ ResizeOf(nodes["n1"].pods[1]).Rollback = Nil
    /\ podStates["p1"].pod.containers[1].Requests = List(1, 1)
    /\ nodes["n1"].requestedResource = Resource(1, 1)

\* C27: when newW carries a resize-status condition whose message is the
\* version tag of the last action and whose status is False, whatever
\* conditions precede it, then after UpdatePod(oldW, newW) the containers
\* named in the rollback records have the saved requests and limits in newW
\* as the node holds it and in the cached pod, the action is UpdateDone and
\* the rollback records are cleared.
C27_Matches(newW, i) ==
    /\ newW.Conditions[i].Type = "PodResourcesResizeStatus"
    /\ newW.Conditions[i].Message = ResizeOf(newW).ActionVersion
    /\ newW.Conditions[i].Status = "False"

C27_Pre(oldW, newW) ==
    /\ C16_Confirmed(oldW)
    /\ C16_Cached(oldW).node = newW.node
    /\ resizeApplies(oldW, newW)
    /\ ResizeOf(newW).Request = <<>>
    /\ ResizeOf(newW).Rollback # Nil
    /\ removePod(nodes, oldW).status = "ok"
    /\ newW.node \in DOMAIN removePod(nodes, oldW).nodes

C27_RolledBack(newW) ==
    /\ HoldsOnce(nodes', newW.node, getPodKey(newW))
    /\ LET held == C24_Held(nodes', newW)
           rb == Deref(ResizeOf(newW).Rollback)
       IN /\ \A j \in DOMAIN rb : \A i \in DOMAIN newW.containers :
                newW.containers[i].Name = rb[j].Name
                    => /\ held.containers[i].Requests = rb[j].Requests
                       /\ held.containers[i].Limits = rb[j].Limits
                       /\ C16_Cached(newW)'.containers[i].Requests = rb[j].Requests
                       /\ C16_Cached(newW)'.containers[i].Limits = rb[j].Limits
          /\ ResizeOf(held).Action = "UpdateDone"
          /\ ResizeOf(held).Rollback = Nil

C27_RollbackWhateverPrecedes ==
    [][\A oldW \in ResizeOldPods, newW \in ResizePodInputs :
          UpdateCall(newW) /\ C27_Pre(oldW, newW)
              /\ (\E i \in DOMAIN newW.Conditions : C27_Matches(newW, i))
              /\ UpdatePod(oldW, newW)
              => C27_RolledBack(newW)]_vars

\* What the code gives: the same when no condition of type
\* PodResourcesResizeStatus precedes the matching one.
C27_First(newW, i) ==
    /\ C27_Matches(newW, i)
    /\ \A j \in 1..(i - 1) : newW.Conditions[j].Type # "PodResourcesResizeStatus"

C27_RollbackOnFirstStatus ==
    [][\A oldW \in ResizeOldPods, newW \in ResizePodInputs :
          UpdateCall(newW) /\ C27_Pre(oldW, newW)
              /\ (\E i \in DOMAIN newW.Conditions : C27_First(newW, i))
              /\ UpdatePod(oldW, newW)
              => C27_RolledBack(newW)]_vars

\* UpdatePod has rolled p1 back to 1 CPU on the report that follows a
\* condition of another type.
C27_Witness ==
    /\ last = Call("UpdatePod", FALSE)
    /\ HoldsOnce(nodes, "n1", "p1")
    /\ Len(nodes["n1"].pods[1].Conditions) = 2
    /\ nodes["n1"].pods[1].Conditions[1].Type = "Ready"
    /\ ResizeOf(nodes["n1"].pods[1]).Action = "UpdateDone"
    /\ nodes["n1"].pods[1].containers[1].Requests = List(1, 1)
    /\ podStates["p1"].pod.containers[1].Requests = List(1, 1)

\* C28: FilteredList(filter, selector) returns exactly the pods held by some
\* NodeInfo that pass the filter and match the selector, each once and no key
\* twice; a pod is listed from the return of its AssumePod, and its key is
\* not listed after ForgetPod or RemovePod has removed it or the reaper has
\* expired it.
C28_Passes(pod, filter, selector) == podFilter(filter, pod) /\ Matches(selector, pod.Labels)
C28_Count(list, pod) == Cardinality({j \in DOMAIN list : list[j] = pod})
C28_Listed(ns, key) ==
    \E order \in Orders(DOMAIN ns) : \E selector \in ListSelectors, filter \in PodFilters :
        \E list \in {FilteredList(ns, filter, selector, order)} :
            \E j \in DOMAIN list : getPodKey(list[j]) = key

C28_Exact ==
    \A order \in Orders(DOMAIN nodes) : \A selector \in ListSelectors, filter \in PodFilters :
        \A list \in {FilteredList(nodes, filter, selector, order)} :
            /\ \A name \in DOMAIN nodes : \A i \in DOMAIN nodes[name].pods :
                  C28_Passes(nodes[name].pods[i], filter, selector)
                      => C28_Count(list, nodes[name].pods[i]) = 1
            /\ \A j \in DOMAIN list :
                  /\ C28_Passes(list[j], filter, selector)
                  /\ \E name \in DOMAIN nodes : \E i \in DOMAIN nodes[name].pods :
                        nodes[name].pods[i] = list[j]
            /\ \A j, k \in DOMAIN list : getPodKey(list[j]) = getPodKey(list[k]) => j = k

C28_FilteredList ==
    /\ []C28_Exact
    /\ [][\A pod \in ListPodInputs :
             AssumePod(pod) /\ last' = Call("AssumePod", FALSE)
                 => \A order \in Orders(DOMAIN nodes') :
                    \A selector \in ListSelectors, filter \in PodFilters :
                        C28_Passes(pod, filter, selector)
                            => C28_Count(FilteredList(nodes', filter, selector, order), pod) = 1]_vars
    /\ [][\A pod \in ListPodInputs :
             ForgetPod(pod) /\ last' = Call("ForgetPod", FALSE)
                 => ~C28_Listed(nodes', getPodKey(pod))]_vars
    /\ [][\A pod \in ListPodInputs :
             RemovePod(pod) /\ last' = Call("RemovePod", FALSE)
                 => ~C28_Listed(nodes', getPodKey(pod))]_vars
    /\ [][cleanupAssumedPods /\ last'.op = "cleanupAssumedPods"
             => \A key \in last'.expired : ~C28_Listed(nodes', key)]_vars

\* The reaper has expired p1 while p2, assumed and labelled, is listed under
\* the selector app=a and only node n1 is tracked.
C28_Witness ==
    /\ last.op = "cleanupAssumedPods"
    /\ "p1" \in last.expired
    /\ "p2" \in assumedPods
    /\ DOMAIN nodes = {"n1"}
    /\ \E j \in DOMAIN CacheList(nodes, {"app=a"}, <<"n1">>) :
          getPodKey(CacheList(nodes, {"app=a"}, <<"n1">>)[j]) = "p2"
    /\ ~C28_Listed(nodes, "p1")

\* C29: every pod held by a NodeInfo has a podStates entry under its key, and
\* no key is held by two NodeInfos.
C29_HasState ==
    \A name \in DOMAIN nodes : \A i \in DOMAIN nodes[name].pods :
        getPodKey(nodes[name].pods[i]) \in DOMAIN podStates

C29_OneNode ==
    \A name, other \in DOMAIN nodes : \A key \in PodKeys :
        Holds(nodes, name, key) /\ Holds(nodes, other, key) => name = other

C29_NoLeak == C29_HasState /\ C29_OneNode

\* p1 is held by n2 after it was assumed on n1, added on n2 and updated,
\* while p2 has been assumed and then forgotten or removed or expired.
C29_Witness ==
    /\ last = Call("UpdatePod", FALSE)
    /\ Holds(nodes, "n2", "p1")
    /\ "p1" \in DOMAIN podStates
    /\ podStates["p1"].pod.node = "n2"
    /\ "p2" \notin DOMAIN podStates
    /\ "n1" \in DOMAIN nodes

\* C30: when UpdatePod(oldW, newW) returns the error of the resize engine
\* (oldW has been removed, and then the node of newW is not tracked or the
\* selector of a budget cannot be converted), newW has replaced oldW all the
\* same: the NodeInfo named by newW holds the key once, as newW, with
\* newW's requests added to what the node requested once oldW was removed,
\* no other NodeInfo holds the key, and the key keeps its podStates entry.
C30_Pre(oldW, newW) ==
    /\ C16_Confirmed(oldW)
    /\ C16_Cached(oldW).node = newW.node
    /\ resizeApplies(oldW, newW)
    /\ removePod(nodes, oldW).status = "ok"

C30_Replaced(oldW, newW, after) ==
    LET key == getPodKey(newW)
        left == removePod(nodes, oldW).nodes
        base == IF newW.node \in DOMAIN left THEN left[newW.node].requestedResource
                ELSE ZeroResource
    IN /\ HoldsOnce(after, newW.node, key)
       /\ \A name \in DOMAIN after : Holds(after, name, key) => name = newW.node
       /\ LET held == C24_Held(after, newW) IN
          /\ held.Labels = newW.Labels
          /\ held.ResourceVersion = newW.ResourceVersion
          /\ held.Conditions = newW.Conditions
          /\ after[newW.node].requestedResource = ResourceAdd(base, calculateResource(held))
       /\ Len(after[newW.node].pods)
             = (IF newW.node \in DOMAIN left THEN Len(left[newW.node].pods) ELSE 0) + 1

\* Whatever pair UpdatePod is called with: the nodes updatePod leaves when
\* the engine fails hold newW in the place of oldW.
C30_WouldReplace ==
    \A oldW \in ResizeOldPods, newW \in ResizePodInputs :
        C30_Pre(oldW, newW)
            => \A order \in Orders(DOMAIN pdbs) :
               \A r \in {updatePod(nodes, podStates, pdbs, oldW, newW, order)} :
                   r.status = "engineErr"
                       => /\ C30_Replaced(oldW, newW, r.nodes)
                          /\ getPodKey(newW) \in DOMAIN r.podStates

\* The step of UpdatePod that leaves newW on its node with the error
\* returned is such a replacement.
C30_EngineErrorReplaces ==
    /\ []C30_WouldReplace
    /\ [][\A oldW \in ResizeOldPods, newW \in ResizePodInputs :
             last' = Call("UpdatePod", TRUE) /\ fatal' = "none" /\ UpdateLeft(newW)
                 /\ C30_Pre(oldW, newW) /\ UpdatePod(oldW, newW)
                 => /\ C30_Replaced(oldW, newW, nodes')
                    /\ getPodKey(newW) \in DOMAIN podStates']_vars

\* UpdatePod has returned the engine's error for a node that was not
\* tracked once oldW was removed: n1, without descriptor, holds p1 with its
\* request still pending, and no budget is stored.
C30_Witness ==
    /\ last = Call("UpdatePod", TRUE)
    /\ fatal = "none"
    /\ pdbs = EmptyMap
    /\ HoldsOnce(nodes, "n1", "p1")
    /\ nodes["n1"].node = Nil
    /\ nodes["n1"].pods[1].ResizeResources # Nil
    /\ ResizeOf(nodes["n1"].pods[1]).Request # <<>>
    /\ ResizeOf(nodes["n1"].pods[1]).Action = ""

\* The same for a selector that cannot be converted: n1, with its
\* descriptor, holds the labelled p1 while the budget b2 of that selector is
\* stored.
C30_SelectorWitness ==
    /\ last = Call("UpdatePod", TRUE)
    /\ fatal = "none"
    /\ \E uid \in DOMAIN pdbs : SelectorError(pdbs[uid])
    /\ HoldsOnce(nodes, "n1", "p1")
    /\ nodes["n1"].node # Nil
    /\ nodes["n1"].pods[1].Labels = {"app=a"}
    /\ nodes["n1"].pods[1].ResizeResources # Nil
    /\ ResizeOf(nodes["n1"].pods[1]).Action = ""

\* C31: when UpdatePod(oldW, newW) commits a pending resize in place (action
\* Update), the requestedResource of newW's node, newW counted with its
\* resized requests, is less than the node's allocatable on MilliCPU and on
\* Memory.
C31_CommittedInPlace(newW) ==
    /\ last' = Call("UpdatePod", FALSE)
    /\ fatal' = "none"
    /\ HoldsOnce(nodes', newW.node, getPodKey(newW))
    /\ ResizeOf(C24_Held(nodes', newW)).Action = "Update"

C31_Below(n) ==
    /\ n.requestedResource.MilliCPU < n.allocatableResource.MilliCPU
    /\ n.requestedResource.Memory < n.allocatableResource.Memory

C31_BelowAllocatable ==
    [][\A oldW \in ResizeOldPods, newW \in FitPodInputs :
          UpdateCall(newW) /\ C24_Pre(oldW, newW) /\ UpdatePod(oldW, newW)
              /\ C31_CommittedInPlace(newW)
              => /\ C31_Below(nodes'[newW.node])
                 /\ nodes'[newW.node].requestedResource =
                       ResourceAdd(removePod(nodes, oldW).nodes[newW.node].requestedResource,
                                   calculateResource(C24_Held(nodes', newW)))]_vars

\* UpdatePod has committed the resize of p1 to 3 of the 4 units of memory of
\* n1: the node counts 1 CPU and 3 of memory.
C31_Witness ==
    /\ last = Call("UpdatePod", FALSE)
    /\ HoldsOnce(nodes, "n1", "p1")
    /\ nodes["n1"].pods[1].ResizeResources # Nil
    /\ ResizeOf(nodes["n1"].pods[1]).Action = "Update"
    /\ nodes["n1"].pods[1].containers[1].Requests = List(1, 3)
    /\ nodes["n1"].requestedResource = Resource(1, 3)
    /\ nodes["n1"].allocatableResource = Resource(4, 4)

\* The requestedResource that C31 bounds is the running total of C3, not the
\* sum over the pods the node holds: that sum stays below the allocatable
\* only while the total has not drifted.
C31_HeldBelowAllocatable ==
    [][\A oldW \in ResizeOldPods, newW \in FitPodInputs :
          UpdateCall(newW) /\ C24_Pre(oldW, newW) /\ UpdatePod(oldW, newW)
              /\ C31_CommittedInPlace(newW)
              => LET n == nodes'[newW.node]
                     held == calculateResource(C24_Held(nodes', newW))
                 IN /\ held.MilliCPU < n.allocatableResource.MilliCPU
                    /\ held.Memory < n.allocatableResource.Memory]_vars

\* ------------------------------------------------- the expiry specification
\* The environment of a binding whose confirmation is lost: no Add and no
\* Forget arrives for pod p1.  Time advances and the reaper, started by run
\* with wait.Until, keeps ticking.  FinishBinding is called while the
\* deadline it sets lies within the horizon of the clock.
OtherPods == {pod \in PodInputs : getPodKey(pod) # "p1"}

NextExpiry ==
    \/ \E pod \in PodInputs : AssumePod(pod)
    \/ \E pod \in PodInputs : now + Ttl < MaxTime /\ FinishBinding(pod)
    \/ \E pod \in OtherPods : ForgetPod(pod)
    \/ \E pod \in OtherPods : AddPod(pod)
    \/ \E oldPod, newPod \in PodInputs : UpdatePod(oldPod, newPod)
    \/ \E pod \in PodInputs : RemovePod(pod)
    \/ \E node \in NodeInputs : AddNode(node)
    \/ \E oldNode, newNode \in NodeInputs : UpdateNode(oldNode, newNode)
    \/ \E node \in NodeInputs : RemoveNode(node)
    \/ cleanupAssumedPods
    \/ Tick

SpecExpiry ==
    /\ Init
    /\ [][NextExpiry]_vars
    /\ WF_vars(Tick)
    /\ WF_vars(cleanupAssumedPods)

\* ------------------------------------------------- the threads specification
\* The scheduler, the event feed and the reaper run their calls on the
\* cache at the same time, all about one pod, which the feed may report on
\* either node.
ThreadPods ==
    {pod \in PodInputs : getPodKey(pod) = "p1" /\ pod.containers[1].Requests = List(1, 1)}

NextThreads ==
    \/ \E th \in Threads, op \in UNION {ThreadOps[t] : t \in Threads}, pod \in ThreadPods :
          Invoke(th, op, IF op = "cleanupAssumedPods" THEN Nil ELSE Ptr(pod))
    \/ \E th \in Threads : Lock(th)
    \/ \E th \in Threads : Read(th)
    \/ \E th \in Threads : Write(th)
    \/ \E th \in Threads : Unlock(th)
    \/ Tick

SpecThreads == Init /\ [][NextThreads]_vars

\* ------------------------------------------------- the resize specification
\* The feeds of nodes, pods and budgets, with the resize inputs.
NextResize ==
    \/ \E node \in NodeInputs : AddNode(node)
    \/ \E node \in NodeInputs : RemoveNode(node)
    \/ \E pod \in CreatedPods : AddPod(pod)
    \/ \E oldPod \in ResizeOldPods, newPod \in ResizePodInputs : UpdatePod(oldPod, newPod)
    \/ \E pod \in ResizeOldPods : RemovePod(pod)
    \/ \E pdb \in PDBInputs : AddPDB(pdb)
    \/ \E oldPDB, newPDB \in PDBInputs : UpdatePDB(oldPDB, newPDB)
    \/ \E pdb \in PDBInputs : RemovePDB(pdb)

SpecResize == Init /\ [][NextResize]_vars

\* --------------------------------------------------- the copy specification
\* The feeds report node n1, pod p1 with a resize that fits the node and the
\* outcome of that resize, and the budget b1, while a caller takes Snapshots
\* and deletes nodes from the one it holds.
NextCopy ==
    \/ \E node \in NodeInputs : AddNode(node)
    \/ \E pod \in CreatedPods : AssumePod(pod)
    \/ \E pod \in CreatedPods : AddPod(pod)
    \/ \E oldPod \in ResizeOldPods, newPod \in CopyPodInputs : UpdatePod(oldPod, newPod)
    \/ \E pod \in CreatedPods : RemovePod(pod)
    \/ \E pdb \in CopyPDBInputs : AddPDB(pdb)
    \/ \E pdb \in CopyPDBInputs : RemovePDB(pdb)
    \/ Snapshot
    \/ \E name \in NodeNames : SnapshotDelete(name)

SpecCopy == Init /\ [][NextCopy]_vars

\* ------------------------------------------------ the listing specification
\* The scheduler and the event feed work on labelled pods and on pods being
\* deleted, while the reaper runs.
NextList ==
    \/ \E pod \in ListPodInputs : AssumePod(pod)
    \/ \E pod \in ListPodInputs : FinishBinding(pod)
    \/ \E pod \in ListPodInputs : ForgetPod(pod)
    \/ \E pod \in ListPodInputs : AddPod(pod)
    \/ \E oldPod, newPod \in ListPodInputs : UpdatePod(oldPod, newPod)
    \/ \E pod \in ListPodInputs : RemovePod(pod)
    \/ \E node \in NodeInputs : AddNode(node)
    \/ \E node \in NodeInputs : RemoveNode(node)
    \/ cleanupAssumedPods
    \/ Tick

SpecList == Init /\ [][NextList]_vars

\* ----------------------------------------------- the capacity specification
\* The event feed reports node n1 and pod p1 with its resizes of CPU and of
\* memory; no budget is stored.
NextFit ==
    \/ \E node \in NodeInputs : AddNode(node)
    \/ \E node \in NodeInputs : RemoveNode(node)
    \/ \E pod \in CreatedPods : AddPod(pod)
    \/ \E oldPod \in ResizeOldPods, newPod \in FitPodInputs : UpdatePod(oldPod, newPod)
    \/ \E pod \in ResizeOldPods : RemovePod(pod)

SpecFit == Init /\ [][NextFit]_vars
====
